---- MODULE Spec2Model ----
(***************************************************************************)
(* A model of himd-js: the track-index (TIF) object store, the high-level  *)
(* disc operations built on it, the generation files under /HMDHIFI and    *)
(* the secure session with the device.                                     *)
(*                                                                         *)
(* Byte strings whose content is opaque to the control flow (keys, MACs,   *)
(* content ids) are tuples that start with a tag; the ciphers are symbolic *)
(* constructors over them.  An optional field (x?: T) is a sequence of     *)
(* length 0 (undefined) or 1.                                              *)
(***************************************************************************)
EXTENDS Integers, Sequences, FiniteSets, TLC

(* ------------------------------ bounds -------------------------------- *)
\* tracks on the disc when it is loaded
MaxInitialTracks == 3
\* operations in one run of the disc specification
MaxOps == 4
\* operations in one run of the object-store specification
MaxStoreOps == 3
\* uploads within one secure session
MaxSessionUploads == 2
\* string chunks of the image, chunk 0 (the freelist head) included
NString == 4
\* group records after the disc-title record 0
MaxGroups == 2
\* audio blocks one upload appends
MaxBlocks == 2
\* the highest ATDATA block a fragment read by the block stream names
MaxStreamBlock == 3
\* fragments in the list a block stream is opened on
MaxFragments == 2
\* uploads and deletions in one run
MaxTrackOps == 3
\* operations on the string table in one run
MaxStringOps == 3
\* calls made on one worker-backed CryptoProvider
MaxCalls == 3
\* blocks the streaming provider's worker yields for one track
MaxStreamBlocks == 5

\* track slots of the image, slot 0 (the freelist head) included: room for
\* every track a run can hold
NTrack == MaxInitialTracks + MaxOps + 1
\* fragment slots of the image, slot 0 (the freelist head) included: room
\* for two fragments per uploaded track
NFrag == MaxInitialTracks + 2 * MaxOps + 1

(* -------------------------- program constants ------------------------- *)
StringChunkLen == 14
GenerationModulus == 16
EkbNumber == 65554
GroupLiveFlag == 16
\* a FAT cluster (32 KiB) in audio blocks (16 KiB)
ClusterBlocks == 2

VARIABLES
    tif,        \* HiMD.tifData: the in-memory track-index image
    dirty,      \* HiMD.dirty
    datanum,    \* HiMD.datanum (optional)
    discId,     \* HiMD.discId (optional)
    files,      \* the files of /HMDHIFI: name -> content
    session,    \* the HiMDSecureSession object
    pc,         \* position of the running session operation
    log,        \* device calls and file operations, in the order issued
    lastOp,     \* the operation that produced this state
    opCount,    \* operations performed so far
    provider,   \* the CryptoProvider of makeAsyncWorker and its worker
    stream,     \* the CryptoBlockProvider of makeAsyncCryptoBlockProvider, its worker and consumer
    reader,     \* the HiMDBlockStream, its file position and what read() returned so far
    upload,     \* an uploadMP3Track call and the MP3 stream reading its track back
    cache       \* the cached UMSC transport: device sectors, low-sector cache, calls

vars == <<tif, dirty, datanum, discId, files, session, pc, log, lastOp, opCount,
          provider, stream, reader, upload, cache>>

(* makeAsyncWorker: no call waiting, nothing posted to or by the worker. *)
NewProvider ==
    [currentWaiting |-> <<>>, toWorker |-> <<>>, toMain |-> <<>>, calls |-> <<>>]

(* No HiMDBlockStream constructed yet. *)
NewReader == [state |-> "none"]

(* uploadMP3Track not called yet. *)
NewUpload == [state |-> "none"]

(* The cached transport before init() installed its wrappers. *)
NewCache == [state |-> "none"]

(* makeAsyncCryptoBlockProvider before process() is called. *)
NewStream ==
    [consumer |-> "new", i |-> 0, chunks |-> <<>>, held |-> <<>>, toWorker |-> <<>>,
     toMain |-> <<>>, generator |-> 0, total |-> 0]

TrackSlots == 0..(NTrack - 1)
FragSlots == 0..(NFrag - 1)
StringSlots == 0..(NString - 1)
GroupSlots == 0..(MaxGroups + 1)

Max(a, b) == IF a > b THEN a ELSE b
Min(a, b) == IF a < b THEN a ELSE b

(* ----------------------------- byte strings --------------------------- *)
Zero == <<"zero">>

(* ------------------------------ TIF image ----------------------------- *)
\* A track slot as getTrack parses it; the three DOS times (always
\* DOSTIME_NULL in every operation modelled) and codecInfo are left out,
\* drm stands for the bytes lt, dest, xcc, ct, cc, cn.
ZeroTrack ==
    [ekbNumber |-> 0, titleIndex |-> 0, artistIndex |-> 0, albumIndex |-> 0,
     trackInAlbum |-> 0, key |-> Zero, mac |-> Zero, codec |-> "none",
     firstFragment |-> 0, trackNumber |-> 0, seconds |-> 0,
     drm |-> Zero, contentId |-> Zero]

ZeroFragment ==
    [key |-> Zero, firstBlock |-> 0, lastBlock |-> 0, firstFrame |-> 0,
     lastFrame |-> 0, fragmentType |-> 0, nextFragment |-> 0]

\* HiMDStringType
UNUSED == 0
CONTINUATION == 1
TITLE == 8
ARTIST == 9
ALBUM == 10
GROUP == 12

ZeroChunk == [content |-> Zero, type |-> UNUSED, link |-> 0]

\* A raw group record: the stored start field is startTrackIndex + 1.
ZeroGroup == [startField |-> 0, endTrackIndex |-> 0, titleIndex |-> 0, flag |-> 0]

getTrack(t, slot) == t.tracks[slot]

writeTrack(t, slot, track) == [t EXCEPT !.tracks[slot] = track]

getFragment(t, index) == t.fragments[index]

\* raw[12] = firstFrame, raw[13] = lastFrame: one byte each
writeFragment(t, index, fragment) ==
    [t EXCEPT !.fragments[index] =
        [fragment EXCEPT !.firstFrame = @ % 256, !.lastFrame = @ % 256]]

getNextFreeTrackSlot(t) == getTrack(t, 0).trackNumber

\* addTrack that leaves slot 0 as it is
addTrackKeepsHead(t, track) ==
    LET newTrackIndex == getTrack(t, 0).trackNumber
    IN  writeTrack(t, newTrackIndex, [track EXCEPT !.trackNumber = newTrackIndex])

addTrack(t, track) ==
    LET freelistTrack == getTrack(t, 0)
        newTrackIndex == freelistTrack.trackNumber
        freeTrackObject == getTrack(t, newTrackIndex)
        t1 == writeTrack(t, 0, [freelistTrack EXCEPT !.trackNumber = freeTrackObject.trackNumber])
    IN  writeTrack(t1, newTrackIndex, [track EXCEPT !.trackNumber = newTrackIndex])

\* The slot is zeroed and the removed entry's firstFragment is then stored
\* at offset 38, the trackNumber field.
removeTrack(t, trackIndex) ==
    LET freelistTrack == getTrack(t, 0)
        trackToFree == getTrack(t, trackIndex)
        t1 == writeTrack(t, 0, [freelistTrack EXCEPT !.trackNumber = trackIndex])
    IN  [t1 EXCEPT !.tracks[trackIndex] =
            [ZeroTrack EXCEPT !.trackNumber = trackToFree.firstFragment]]

addFragmentIndex(t) == getFragment(t, 0).nextFragment

addFragment(t, fragment) ==
    LET freelistFragment == getFragment(t, 0)
        newFragmentIndex == freelistFragment.nextFragment
        newFragment == getFragment(t, newFragmentIndex)
        t1 == writeFragment(t, 0, [freelistFragment EXCEPT !.nextFragment = newFragment.nextFragment])
    IN  writeFragment(t1, newFragmentIndex, fragment)

removeFragment(t, fragmentIndex) ==
    LET freelistFragment == getFragment(t, 0)
        t1 == writeFragment(t, 0, [freelistFragment EXCEPT !.nextFragment = fragmentIndex])
    IN  [t1 EXCEPT !.fragments[fragmentIndex] =
            [ZeroFragment EXCEPT !.nextFragment = freelistFragment.nextFragment]]

\* The slots reached from slot 0 through trackNumber, at most fuel of them.
RECURSIVE TrackChain(_, _, _)
TrackChain(t, slot, fuel) ==
    IF slot = 0 \/ fuel = 0 \/ slot \notin TrackSlots THEN <<>>
    ELSE <<slot>> \o TrackChain(t, getTrack(t, slot).trackNumber, fuel - 1)

TrackFreelist(t) == TrackChain(t, getTrack(t, 0).trackNumber, NTrack)

RECURSIVE FragmentChain(_, _, _)
FragmentChain(t, index, fuel) ==
    IF index = 0 \/ fuel = 0 \/ index \notin FragSlots THEN <<>>
    ELSE <<index>> \o FragmentChain(t, getFragment(t, index).nextFragment, fuel - 1)

FragmentFreelist(t) == FragmentChain(t, getFragment(t, 0).nextFragment, NFrag)

(* ------------------------------- strings ------------------------------ *)
getStringChunk(t, index) == t.strings[index]

writeStringChunk(t, index, chunk) == [t EXCEPT !.strings[index] = chunk]

\* A text is given by an identity and by the length in bytes of its encoding,
\* the encoding byte included; piece i of it is the content of its chunk i.
Texts == {[id |-> "A", len |-> 2], [id |-> "B", len |-> StringChunkLen + 1]}

\* the slot count without the +13 that rounds up
SlotsNeededRoundedDown(text) == text.len \div StringChunkLen

SlotsNeeded(text) == (text.len + 13) \div StringChunkLen

\* addString without its first loop
CheckFreeStringsSkipped(t, index, remaining) == "ok"

\* The first loop of addString: "ok", or the error it throws.
RECURSIVE CheckFreeStrings(_, _, _)
CheckFreeStrings(t, index, remaining) ==
    IF remaining = 0 THEN "ok"
    ELSE LET chunk == getStringChunk(t, index)
         IN  IF chunk.type # UNUSED THEN "Freelist string chain broken"
             ELSE IF chunk.link = 0 THEN "Not enough free string slots"
             ELSE CheckFreeStrings(t, chunk.link, remaining - 1)

\* The second loop of addString: writes pieces i.. and returns the image and
\* the index the loop ends on.
RECURSIVE WriteStringChunks(_, _, _, _, _, _)
WriteStringChunks(t, index, i, slots, text, type) ==
    IF i = slots THEN [tif |-> t, index |-> index]
    ELSE LET chunk == getStringChunk(t, index)
             nextLink == chunk.link
             written == [content |-> <<"text", text.id, i>>,
                         type |-> IF i = 0 THEN type ELSE CONTINUATION,
                         link |-> IF i = slots - 1 THEN 0 ELSE chunk.link]
         IN  WriteStringChunks(writeStringChunk(t, index, written), nextLink, i + 1, slots, text, type)

\* [err, tif, index]: err is "ok" or the message thrown, index the root chunk.
addString(t, text, type) ==
    LET slots == SlotsNeeded(text)
        check == CheckFreeStrings(t, 0, slots)
        startIndex == getStringChunk(t, 0).link
        w == WriteStringChunks(t, startIndex, 0, slots, text, type)
    IN  IF check # "ok" THEN [err |-> check, tif |-> t, index |-> 0]
        ELSE [err |-> "ok",
              tif |-> writeStringChunk(w.tif, 0, [getStringChunk(w.tif, 0) EXCEPT !.link = w.index]),
              index |-> startIndex]

RECURSIVE FreeStringChunks(_, _, _, _)
FreeStringChunks(t, index, nextFreeChunk, fuel) ==
    IF index = 0 \/ fuel = 0 THEN t
    ELSE LET chunk == getStringChunk(t, index)
         IN  IF chunk.link = 0
             THEN writeStringChunk(t, index, [content |-> Zero, type |-> UNUSED, link |-> nextFreeChunk])
             ELSE FreeStringChunks(
                    writeStringChunk(t, index, [content |-> Zero, type |-> UNUSED, link |-> chunk.link]),
                    chunk.link, nextFreeChunk, fuel - 1)

\* removeString that frees the root chunk only
removeStringRootOnly(t, index) ==
    IF index = 0 THEN t
    ELSE LET freelist == getStringChunk(t, 0)
             t1 == writeStringChunk(t, 0, [freelist EXCEPT !.link = index])
         IN  writeStringChunk(t1, index, [content |-> Zero, type |-> UNUSED, link |-> freelist.link])

removeString(t, index) ==
    IF index = 0 THEN t
    ELSE LET freelist == getStringChunk(t, 0)
             nextFreeChunk == freelist.link
             t1 == writeStringChunk(t, 0, [freelist EXCEPT !.link = index])
         IN  FreeStringChunks(t1, index, nextFreeChunk, NString)

RECURSIVE StringChain(_, _, _)
StringChain(t, index, fuel) ==
    IF index = 0 \/ fuel = 0 \/ index \notin StringSlots THEN <<>>
    ELSE <<index>> \o StringChain(t, getStringChunk(t, index).link, fuel - 1)

StringFreelist(t) == StringChain(t, getStringChunk(t, 0).link, NString)

(* ------------------------------- groups ------------------------------- *)
\* A record past the modelled table reads as the zero bytes that follow it.
RawGroup(t, groupIndex) ==
    IF groupIndex \in GroupSlots THEN t.groups[groupIndex] ELSE ZeroGroup

getGroup(t, groupIndex) ==
    LET raw == RawGroup(t, groupIndex)
    IN  [groupIndex |-> groupIndex,
         startTrackIndex |-> raw.startField - 1,
         endTrackIndex |-> raw.endTrackIndex,
         titleIndex |-> raw.titleIndex]

writeGroup(t, groupIndex, group) ==
    [t EXCEPT !.groups[groupIndex] =
        [startField |-> group.startTrackIndex + 1,
         endTrackIndex |-> group.endTrackIndex,
         titleIndex |-> group.titleIndex,
         flag |-> IF group.groupIndex = -1 THEN 0 ELSE GroupLiveFlag]]

HIMD_NO_GROUP == [startTrackIndex |-> -1, endTrackIndex |-> 0, titleIndex |-> 0, groupIndex |-> -2]

GroupExists(t, i) ==
    LET group == getGroup(t, i)
    IN  ~(group.endTrackIndex = 0 /\ group.startTrackIndex = -1 /\ group.titleIndex = 0)

RECURSIVE GroupCountFrom(_, _)
GroupCountFrom(t, i) ==
    IF i > MaxGroups + 1 \/ ~GroupExists(t, i) THEN i - 1 ELSE GroupCountFrom(t, i + 1)

getGroupCount(t) == GroupCountFrom(t, 1)

eraseGroup(t, index) == writeGroup(t, index, HIMD_NO_GROUP)

(* --------------------------- track ordering --------------------------- *)
trackIndexToTrackSlot(t, index) == t.ordering[index]

writeTrackIndexToTrackSlot(t, index, slot) == [t EXCEPT !.ordering[index] = slot]

getTrackCount(t) == t.trackCount

writeTrackCount(t, number) == [t EXCEPT !.trackCount = number]


(* ------------------------------ sequences ----------------------------- *)
RemoveAt(seq, i) == SubSeq(seq, 1, i - 1) \o SubSeq(seq, i + 1, Len(seq))

InsertAt(seq, i, x) == SubSeq(seq, 1, i - 1) \o <<x>> \o SubSeq(seq, i, Len(seq))

SetMax(S) == CHOOSE x \in S : \A y \in S : y <= x

SetMin(S) == CHOOSE x \in S : \A y \in S : x <= y

\* Array.sort((a, b) => b - a) of distinct numbers
RECURSIVE SortDescending(_)
SortDescending(S) ==
    IF S = {} THEN <<>> ELSE <<SetMax(S)>> \o SortDescending(S \ {SetMax(S)})

RECURSIVE SortAscending(_)
SortAscending(S) ==
    IF S = {} THEN <<>> ELSE <<SetMin(S)>> \o SortAscending(S \ {SetMin(S)})

\* The JavaScript remainder a % b for b > 0: the sign follows the dividend.
JsRem(a, b) == IF a >= 0 THEN a % b ELSE -((-a) % b)

\* setUint16 keeps the low 16 bits.
Uint16(v) == v % 65536

(* --------------------- himd-functions: groups, order ------------------ *)
\* An optional text (title?: string, title: string | null) is <<>> or <<text>>.
OptTexts == {<<>>} \cup {<<x>> : x \in Texts}

\* The ordering positions 0..trackCount-1 as a sequence of slots.
Ordering(t) == [i \in 1..getTrackCount(t) |-> trackIndexToTrackSlot(t, i - 1)]

RECURSIVE WriteOrdering(_, _, _)
WriteOrdering(t, slots, i) ==
    IF i > Len(slots) THEN t
    ELSE WriteOrdering(writeTrackIndexToTrackSlot(t, i - 1, slots[i]), slots, i + 1)

moveTrack(t, from, to) ==
    LET tracks == Ordering(t)
        moved == tracks[from + 1]
        spliced == InsertAt(RemoveAt(tracks, from + 1), to + 1, moved)
    IN  WriteOrdering(t, spliced, 1)

\* The index the first loop of addGroup stops at.
RECURSIVE NewGroupIndex(_, _, _)
NewGroupIndex(t, start, groupIndex) ==
    IF groupIndex < getGroupCount(t) + 1 /\ ~(getGroup(t, groupIndex).startTrackIndex > start)
    THEN NewGroupIndex(t, start, groupIndex + 1)
    ELSE groupIndex

\* for (i = getGroupCount() + 1; i > groupIndex; i--) writeGroup(i, getGroup(i - 1))
RECURSIVE ShiftGroupsUp(_, _, _)
ShiftGroupsUp(t, i, groupIndex) ==
    IF i > groupIndex THEN ShiftGroupsUp(writeGroup(t, i, getGroup(t, i - 1)), i - 1, groupIndex) ELSE t

\* [err, tif]
addGroup(t, title, start, length) ==
    LET added == IF title = <<>> THEN [err |-> "ok", tif |-> t, index |-> 0]
                 ELSE addString(t, title[1], GROUP)
        t1 == added.tif
        groupIndex == NewGroupIndex(t1, start, 1)
        t2 == ShiftGroupsUp(t1, getGroupCount(t1) + 1, groupIndex)
        group == [startTrackIndex |-> start, endTrackIndex |-> start + length,
                  titleIndex |-> added.index, groupIndex |-> groupIndex]
    IN  IF added.err # "ok" THEN [err |-> added.err, tif |-> t1]
        ELSE [err |-> "ok", tif |-> writeGroup(t2, groupIndex, group)]

\* for (i = index; i < groupCount; i++) writeGroup(i, getGroup(i + 1))
RECURSIVE ShiftGroupsDown(_, _, _)
ShiftGroupsDown(t, i, groupCount) ==
    IF i < groupCount THEN ShiftGroupsDown(writeGroup(t, i, getGroup(t, i + 1)), i + 1, groupCount) ELSE t

deleteGroup(t, index0) ==
    LET groupCount == getGroupCount(t)
        index == index0 + 1
        t1 == removeString(t, getGroup(t, index).titleIndex)
        t2 == ShiftGroupsDown(t1, index, groupCount)
    IN  eraseGroup(t2, groupCount)

RECURSIVE DeleteGroupsLoop(_, _, _)
DeleteGroupsLoop(t, i, groupCount) ==
    IF i < groupCount THEN DeleteGroupsLoop(deleteGroup(t, i), i + 1, groupCount) ELSE t

\* groups.sort((a, b) => min(a.indices) - min(b.indices)): a stable insertion
\* of group g into an already sorted sequence.
RECURSIVE InsertByMin(_, _)
InsertByMin(sorted, g) ==
    IF sorted = <<>> THEN <<g>>
    ELSE IF SetMin(sorted[Len(sorted)]) <= SetMin(g) THEN Append(sorted, g)
    ELSE Append(InsertByMin(SubSeq(sorted, 1, Len(sorted) - 1), g), sorted[Len(sorted)])

RECURSIVE SortGroupsByMin(_)
SortGroupsByMin(groups) ==
    IF groups = <<>> THEN <<>>
    ELSE InsertByMin(SortGroupsByMin(SubSeq(groups, 1, Len(groups) - 1)), groups[Len(groups)])

\* The loop of rewriteGroups over the sorted groups; a group is the set of
\* its (distinct) indices, all groups carry the same optional title.
RECURSIVE AddGroupsLoop(_, _, _, _, _)
AddGroupsLoop(t, groups, i, title, alreadyGrouped) ==
    IF i > Len(groups) THEN [err |-> "ok", tif |-> t]
    ELSE LET indices == groups[i]
             start == SetMin(indices)
             end == SetMax(indices)
             added == addGroup(t, title, start, end - start + 1)
         IN  IF end - start # Cardinality(indices) - 1
             THEN [err |-> "group is not sequential", tif |-> t]
             ELSE IF indices \cap alreadyGrouped # {}
             THEN [err |-> "track already grouped", tif |-> t]
             ELSE IF added.err # "ok" THEN added
             ELSE AddGroupsLoop(added.tif, groups, i + 1, title, alreadyGrouped \cup indices)

rewriteGroups(t, groups, title) ==
    LET t1 == DeleteGroupsLoop(t, 0, getGroupCount(t))
    IN  AddGroupsLoop(t1, SortGroupsByMin(groups), 1, title, {})

\* [err, tif]: which is "title", "album" or "artist", value is "" (the empty
\* string) or a text; the two other properties are undefined.
renameTrack(t, index, which, value) ==
    LET slot == trackIndexToTrackSlot(t, index)
        track == getTrack(t, slot)
        old == IF which = "title" THEN track.titleIndex
               ELSE IF which = "album" THEN track.albumIndex ELSE track.artistIndex
        type == IF which = "title" THEN TITLE ELSE IF which = "album" THEN ALBUM ELSE ARTIST
        t1 == IF old # 0 THEN removeString(t, old) ELSE t
        added == IF value = <<>> THEN [err |-> "ok", tif |-> t1, index |-> 0]
                 ELSE addString(t1, value[1], type)
        renamed == IF which = "title" THEN [track EXCEPT !.titleIndex = added.index]
                   ELSE IF which = "album" THEN [track EXCEPT !.albumIndex = added.index]
                   ELSE [track EXCEPT !.artistIndex = added.index]
    IN  IF added.err # "ok" THEN [err |-> added.err, tif |-> added.tif]
        ELSE [err |-> "ok", tif |-> writeTrack(added.tif, trackIndexToTrackSlot(added.tif, index), renamed)]


(* ------------------------------ encryption ---------------------------- *)
\* The ciphers as symbolic constructors: equal outputs need equal inputs.
Keys == {<<"key", 1>>, <<"key", 2>>}

encryptTrackKey(trackKey) == <<"kek", trackKey>>

createTrackKey(ekbNumber, encryptedKey) == encryptedKey[2]

createTrackMac(trackKey, trackEntry) == <<"trackmac", trackKey, trackEntry>>

retailMac(message, key) == <<"retailmac", message, key>>

createIcvMac(headerIcv, sessionKey) == <<"icvmac", headerIcv, sessionKey>>

decryptMaclistKey(keyCipher) == <<"maclistkey", keyCipher>>

MAIN_KEY == <<"MAIN_KEY">>

(* --------------------------- secure session: signing ------------------ *)
\* Bytes 0x28..0x50 of a serialised track entry: seconds, lt, dest, the last
\* two codec-info bytes, the content id, the licence times and xcc..cn.
SerializedEntryTail(track) == <<"entry", track.seconds, track.codec, track.drm, track.contentId>>

SignedContentId == <<"contentId", "signed">>

\* The entry of the MAC table (8 bytes each) a track number is signed into.
MacEntryOffByOne(trackNumber) == trackNumber

MacEntry(trackNumber) == trackNumber - 1

MacEntries == 0..(NTrack - 2)

\* HiMDSecureSession.createTrackMac with a provided key: [err, mac, allMacs].
sessionCreateTrackMac(allMacs, track, trackKey) ==
    LET mac == createTrackMac(trackKey, SerializedEntryTail(track))
    IN  IF allMacs = <<>> THEN [err |-> "TypeError", mac |-> mac, allMacs |-> allMacs]
        ELSE IF MacEntry(track.trackNumber) \notin MacEntries
        THEN [err |-> "RangeError", mac |-> mac, allMacs |-> allMacs]
        ELSE [err |-> "ok", mac |-> mac,
              allMacs |-> <<[allMacs[1] EXCEPT ![MacEntry(track.trackNumber)] = mac]>>]

\* [err, track, allMacs]: the track with contentId, key and mac stamped.
createAndSignNewTrack(allMacs, track, trackKey) ==
    LET kek == encryptTrackKey(trackKey)
        stamped == [track EXCEPT !.contentId = SignedContentId]
        signed == sessionCreateTrackMac(allMacs, stamped, trackKey)
    IN  [err |-> signed.err,
         track |-> [stamped EXCEPT !.key = kek, !.mac = signed.mac],
         allMacs |-> signed.allMacs]

(* ------------------------------- uploads ------------------------------ *)
\* HiMDWriteStream.close() of a stream opened on an ATDATA of atdataBlocks
\* blocks after blockCount blocks were written.
WriteStreamClose(atdataBlocks, blockCount) ==
    [firstBlock |-> atdataBlocks, lastBlock |-> atdataBlocks + blockCount - 1]

\* title, album, artist in this order: [err, tif, indices]
RECURSIVE AddTrackStrings(_, _, _, _)
AddTrackStrings(t, texts, types, indices) ==
    IF texts = <<>> THEN [err |-> "ok", tif |-> t, indices |-> indices]
    ELSE IF Head(texts) = <<>>
    THEN AddTrackStrings(t, Tail(texts), Tail(types), Append(indices, 0))
    ELSE LET added == addString(t, Head(texts)[1], Head(types))
         IN  IF added.err # "ok" THEN [err |-> added.err, tif |-> added.tif, indices |-> indices]
             ELSE AddTrackStrings(added.tif, Tail(texts), Tail(types), Append(indices, added.index))

\* addTrack, then the ordering entry and the track count
AppendTrack(t, track) ==
    LET slot == getNextFreeTrackSlot(t)
        t1 == addTrack(t, track)
        t2 == writeTrackIndexToTrackSlot(t1, getTrackCount(t1), slot)
    IN  writeTrackCount(t2, getTrackCount(t2) + 1)

Mp3ContentId == <<"contentId", "mp3">>

\* uploadMP3Track up to its flush: [err, tif, blocks]; blocks is the number
\* of blocks appended to ATDATA, frameCount the frames of the last block.
uploadMP3Track(t, atdataBlocks, blockCount, frameCount, title, album, artist) ==
    LET closed == WriteStreamClose(atdataBlocks, blockCount)
        fragment == [key |-> Zero, firstBlock |-> Uint16(closed.firstBlock),
                     lastBlock |-> Uint16(closed.lastBlock), firstFrame |-> 0,
                     lastFrame |-> frameCount, fragmentType |-> 0, nextFragment |-> 0]
        fragmentIndex == addFragmentIndex(t)
        t1 == addFragment(t, fragment)
        strs == AddTrackStrings(t1, <<title, album, artist>>, <<TITLE, ALBUM, ARTIST>>, <<>>)
        track == [ekbNumber |-> 0, titleIndex |-> strs.indices[1], artistIndex |-> strs.indices[3],
                  albumIndex |-> strs.indices[2], trackInAlbum |-> 1, key |-> Zero, mac |-> Zero,
                  codec |-> "MP3", firstFragment |-> fragmentIndex, trackNumber |-> 1,
                  seconds |-> blockCount, drm |-> <<"drm", "mp3">>, contentId |-> Mp3ContentId]
    IN  IF strs.err # "ok" THEN [err |-> strs.err, tif |-> strs.tif, blocks |-> blockCount]
        ELSE [err |-> "ok", tif |-> AppendTrack(strs.tif, track), blocks |-> blockCount]

\* uploadMacDependent (streaming = FALSE) and uploadStreamingMacDependent
\* (streaming = TRUE) up to the flush: [err, tif, blocks, allMacs].
uploadMacDependent(t, allMacs, atdataBlocks, streaming, trackKey, fragmentKey, blockCount, title, album, artist) ==
    LET slot == getNextFreeTrackSlot(t)
        trackData == [ekbNumber |-> EkbNumber, titleIndex |-> 0, artistIndex |-> 0,
                      albumIndex |-> 0, trackInAlbum |-> 0, key |-> <<>>, mac |-> <<>>,
                      codec |-> "AT3", firstFragment |-> 0, trackNumber |-> slot,
                      seconds |-> blockCount, drm |-> <<"drm", "mac">>, contentId |-> <<>>]
        signed == createAndSignNewTrack(allMacs, trackData, trackKey)
        closed == WriteStreamClose(atdataBlocks, blockCount)
        fragment == [key |-> fragmentKey, firstBlock |-> Uint16(closed.firstBlock),
                     lastBlock |-> Uint16(closed.lastBlock), firstFrame |-> 0,
                     lastFrame |-> 0, fragmentType |-> 0, nextFragment |-> 0]
        \* uploadMacDependent adds the fragment twice and records the second index
        t1 == IF streaming THEN t ELSE addFragment(t, fragment)
        firstFragment == addFragmentIndex(t1)
        t2 == addFragment(t1, fragment)
        strs == AddTrackStrings(t2, <<title, album, artist>>, <<TITLE, ALBUM, ARTIST>>, <<>>)
        track == [signed.track EXCEPT !.firstFragment = firstFragment,
                                      !.titleIndex = strs.indices[1],
                                      !.albumIndex = strs.indices[2],
                                      !.artistIndex = strs.indices[3]]
    IN  IF signed.err # "ok"
        THEN [err |-> signed.err, tif |-> t, blocks |-> 0, allMacs |-> allMacs]
        ELSE IF strs.err # "ok"
        THEN [err |-> strs.err, tif |-> strs.tif, blocks |-> blockCount, allMacs |-> signed.allMacs]
        ELSE [err |-> "ok", tif |-> AppendTrack(strs.tif, track), blocks |-> blockCount,
              allMacs |-> signed.allMacs]


(* ----------------------------- deleteTracks --------------------------- *)
\* The region of one fragment, rounded to whole clusters of two blocks.
AlignedRegion(fragmentObject) ==
    LET firstBlock == fragmentObject.firstBlock
        length == fragmentObject.lastBlock - fragmentObject.firstBlock + 1
        oddStart == JsRem(firstBlock, ClusterBlocks) = 1
        firstBlock1 == IF oddStart THEN firstBlock + 1 ELSE firstBlock
        length1 == IF oddStart THEN length - 1 ELSE length
        length2 == IF JsRem(length1, ClusterBlocks) = 1 THEN length1 - 1 ELSE length1
    IN  [firstBlock |-> firstBlock1, length |-> length2]

\* The while loop over one track's fragment chain: [tif, blocksToFree]
RECURSIVE RemoveFragmentChain(_, _, _, _)
RemoveFragmentChain(t, fragment, blocksToFree, fuel) ==
    IF fragment = 0 \/ fuel = 0 THEN [tif |-> t, blocksToFree |-> blocksToFree]
    ELSE LET fragmentObject == getFragment(t, fragment)
         IN  RemoveFragmentChain(removeFragment(t, fragment), fragmentObject.nextFragment,
                                 Append(blocksToFree, AlignedRegion(fragmentObject)), fuel - 1)

\* the ordering left as it is
ShiftOrderingSkipped(t, i) == t

\* for (i = trackListIndex; i < getTrackCount() - 1; i++) ordering[i] = ordering[i + 1]
RECURSIVE ShiftOrderingDown(_, _)
ShiftOrderingDown(t, i) ==
    IF i < getTrackCount(t) - 1
    THEN ShiftOrderingDown(writeTrackIndexToTrackSlot(t, i, trackIndexToTrackSlot(t, i + 1)), i + 1)
    ELSE t

\* One iteration of the first loop of deleteTracks: [tif, blocksToFree]
DeleteOneTrack(t, trackListIndex, blocksToFree) ==
    LET trackIndex == trackIndexToTrackSlot(t, trackListIndex)
        track == getTrack(t, trackIndex)
        chain == RemoveFragmentChain(t, track.firstFragment, blocksToFree, 2 * NFrag)
        t1 == removeString(chain.tif, track.albumIndex)
        t2 == removeString(t1, track.artistIndex)
        t3 == removeString(t2, track.titleIndex)
        t4 == removeTrack(t3, trackIndex)
        t5 == ShiftOrderingDown(t4, trackListIndex)
        t6 == writeTrackIndexToTrackSlot(t5, getTrackCount(t5) - 1, 0)
    IN  [tif |-> writeTrackCount(t6, getTrackCount(t6) - 1), blocksToFree |-> chain.blocksToFree]

RECURSIVE DeleteLoop(_, _, _, _)
DeleteLoop(t, tracksToDelete, i, blocksToFree) ==
    IF i > Len(tracksToDelete) THEN [tif |-> t, blocksToFree |-> blocksToFree]
    ELSE LET one == DeleteOneTrack(t, tracksToDelete[i], blocksToFree)
         IN  DeleteLoop(one.tif, tracksToDelete, i + 1, one.blocksToFree)

\* The inner for loop over blocksToFree: each comparison reads the
\* fragment as the earlier iterations left it.
RECURSIVE ShiftFragment(_, _, _)
ShiftFragment(fragObject, blocksToFree, i) ==
    IF i > Len(blocksToFree) THEN fragObject
    ELSE IF fragObject.firstBlock > blocksToFree[i].firstBlock
    THEN ShiftFragment([fragObject EXCEPT !.firstBlock = @ - blocksToFree[i].length,
                                          !.lastBlock = @ - blocksToFree[i].length],
                       blocksToFree, i + 1)
    ELSE ShiftFragment(fragObject, blocksToFree, i + 1)

StoredFragment(fragObject) ==
    [fragObject EXCEPT !.firstBlock = Uint16(@), !.lastBlock = Uint16(@)]

RECURSIVE ShiftChain(_, _, _, _)
ShiftChain(t, frag, blocksToFree, fuel) ==
    IF frag = 0 \/ fuel = 0 THEN t
    ELSE LET fragObject == getFragment(t, frag)
             shifted == ShiftFragment(fragObject, blocksToFree, 1)
             t1 == IF shifted # fragObject THEN writeFragment(t, frag, StoredFragment(shifted)) ELSE t
         IN  ShiftChain(t1, fragObject.nextFragment, blocksToFree, fuel - 1)

\* The second loop of deleteTracks, over the surviving tracks
RECURSIVE ShiftSurvivors(_, _, _)
ShiftSurvivors(t, i, blocksToFree) ==
    IF i < getTrackCount(t)
    THEN ShiftSurvivors(
            ShiftChain(t, getTrack(t, trackIndexToTrackSlot(t, i)).firstFragment, blocksToFree, 2 * NFrag),
            i + 1, blocksToFree)
    ELSE t

\* UMSCHiMDFilesystem.freeFileRegions on a file of fileBlocks blocks, the
\* regions in blocks, a cluster being two blocks: [err, blocks]
RECURSIVE InsertRegionDescending(_, _)
InsertRegionDescending(sorted, r) ==
    IF sorted = <<>> THEN <<r>>
    ELSE IF sorted[Len(sorted)].firstBlock >= r.firstBlock THEN Append(sorted, r)
    ELSE Append(InsertRegionDescending(SubSeq(sorted, 1, Len(sorted) - 1), r), sorted[Len(sorted)])

RECURSIVE SortRegionsDescending(_)
SortRegionsDescending(regions) ==
    IF regions = <<>> THEN <<>>
    ELSE InsertRegionDescending(SortRegionsDescending(SubSeq(regions, 1, Len(regions) - 1)),
                                regions[Len(regions)])

\* clusterChain is the number of clusters of the file
RECURSIVE SpliceRegions(_, _, _)
SpliceRegions(clusterChain, regions, i) ==
    IF i > Len(regions) THEN "ok"
    ELSE LET startCluster == regions[i].firstBlock \div ClusterBlocks
             clusterCount == regions[i].length \div ClusterBlocks
         IN  IF JsRem(regions[i].firstBlock, ClusterBlocks) # 0 \/ JsRem(regions[i].length, ClusterBlocks) # 0
             THEN "non-aligned"
             ELSE IF startCluster + clusterCount > clusterChain
             THEN "outside of the file"
             \* Array.splice(start, count) removes nothing for count <= 0
             ELSE SpliceRegions(clusterChain - Max(0, Min(clusterCount, clusterChain - startCluster)),
                                regions, i + 1)

RECURSIVE TotalLength(_)
TotalLength(regions) ==
    IF regions = <<>> THEN 0 ELSE regions[1].length + TotalLength(Tail(regions))

freeFileRegions(fileBlocks, regions) ==
    LET spliced == SpliceRegions((fileBlocks + ClusterBlocks - 1) \div ClusterBlocks,
                                 SortRegionsDescending(regions), 1)
    IN  IF spliced # "ok" THEN [err |-> spliced, blocks |-> fileBlocks]
        ELSE [err |-> "ok", blocks |-> fileBlocks - TotalLength(regions)]

\* deleteTracks up to its flush: [err, tif, blocks, blocksToFree]; blocks is
\* the new length of ATDATA in blocks.
deleteTracks(t, atdataBlocks, tracksToDelete) ==
    LET deleted == DeleteLoop(t, SortDescending(tracksToDelete), 1, <<>>)
        t1 == ShiftSurvivors(deleted.tif, 0, deleted.blocksToFree)
        freed == freeFileRegions(atdataBlocks, deleted.blocksToFree)
    IN  [err |-> freed.err, tif |-> t1, blocks |-> freed.blocks,
         blocksToFree |-> deleted.blocksToFree]


(* ----------------------------- initial discs -------------------------- *)
OrderSlots == 0..(NTrack + MaxOps)

\* A formatted disc: no track, every slot on its freelist in index order.
FreshImage ==
    [magic |-> "TIF ",
     tracks |-> [i \in TrackSlots |->
                    [ZeroTrack EXCEPT !.trackNumber = IF i = NTrack - 1 THEN 0 ELSE i + 1]],
     fragments |-> [i \in FragSlots |->
                    [ZeroFragment EXCEPT !.nextFragment = IF i = NFrag - 1 THEN 0 ELSE i + 1]],
     strings |-> [i \in StringSlots |->
                    [ZeroChunk EXCEPT !.link = IF i = NString - 1 THEN 0 ELSE i + 1]],
     groups |-> [i \in GroupSlots |-> ZeroGroup],
     ordering |-> [i \in OrderSlots |-> 0],
     trackCount |-> 0]

\* The blocks of each track a disc starts with (one whole cluster).
InitialTrackBlocks == ClusterBlocks

\* A disc that holds n untitled MP3 tracks, recorded one after the other.
RECURSIVE DiscWithTracks(_)
DiscWithTracks(n) ==
    IF n = 0 THEN FreshImage
    ELSE uploadMP3Track(DiscWithTracks(n - 1), (n - 1) * InitialTrackBlocks,
                        InitialTrackBlocks, 1, <<>>, <<>>, <<>>).tif

InitialTrackCounts == 0..MaxInitialTracks

LiveSlots(t) == {trackIndexToTrackSlot(t, i) : i \in 0..(getTrackCount(t) - 1)}

\* The invariants of section 3.3 on tracks, fragments and the freelists.
WellFormed(t) ==
    /\ \A i \in 0..(getTrackCount(t) - 1) :
          LET slot == trackIndexToTrackSlot(t, i)
          IN  /\ slot \in TrackSlots \ {0}
              /\ getTrack(t, slot).trackNumber = slot
              /\ getTrack(t, slot).firstFragment # 0
    /\ \A i, j \in 0..(getTrackCount(t) - 1) :
          i # j => trackIndexToTrackSlot(t, i) # trackIndexToTrackSlot(t, j)
    /\ LET free == TrackFreelist(t)
       IN  /\ {free[i] : i \in 1..Len(free)} = (TrackSlots \ {0}) \ LiveSlots(t)
           /\ Len(free) = NTrack - 1 - getTrackCount(t)

InitialDatanum == 1

DiscId == <<"discId", 1>>

MclistName(n) == <<"MCLIST", n>>
AtdataName(n) == <<"ATDATA", n>>
TrkidxName(n) == <<"TRKIDX", n>>

\* HiMD.getDatanumDependentName
getDatanumDependentName(name, n) == <<name, n>>

HeadKeyCipher == <<"cipher", "head">>
BodyKeyCipher == <<"cipher", "body">>

InitialMclist ==
    [headKey |-> HeadKeyCipher, generation |-> InitialDatanum, ekbid |-> EkbNumber,
     discId |-> DiscId, bodyKey |-> BodyKeyCipher, macs |-> [e \in MacEntries |-> Zero]]

\* The three files of generation n for an image t
GenerationFiles(t, n) ==
    (AtdataName(n) :> getTrackCount(t) * InitialTrackBlocks)
        @@ (TrkidxName(n) :> t) @@ (MclistName(n) :> InitialMclist)

(* ----------------------------- the session ---------------------------- *)
HostNonce == <<"nonce", "host">>
HostLeafId == <<"leaf", "host">>

\* new HiMDSecureSession(himd, driver?)
NewSession(hasDriver) ==
    [hasDriver |-> hasDriver, hostNonce |-> HostNonce, hostLeafId |-> HostLeafId,
     deviceNonce |-> <<>>, discId |-> <<>>, deviceLeafId |-> <<>>,
     currentIcv |-> <<>>, currentIcvHeader |-> <<>>, sessionKey |-> <<>>,
     currentGeneration |-> <<>>, headKey |-> <<>>, bodyKey |-> <<>>, allMacs |-> <<>>]


(* ------------------- specification of the object store ---------------- *)
\* The state after HiMD.init on a disc of n tracks, a session constructed.
Loaded(n, hasDriver, otherFiles) ==
    /\ tif = DiscWithTracks(n)
    /\ dirty = FALSE
    /\ datanum = <<InitialDatanum>>
    /\ discId = <<DiscId>>
    /\ files = GenerationFiles(DiscWithTracks(n), InitialDatanum) @@ otherFiles
    /\ session = NewSession(hasDriver)
    /\ pc = "new"
    /\ log = <<>>
    /\ lastOp = [op |-> "init"]
    /\ opCount = 0
    /\ provider = NewProvider
    /\ stream = NewStream
    /\ reader = NewReader
    /\ upload = NewUpload
    /\ cache = NewCache

StoreInit == \E n \in InitialTrackCounts : Loaded(n, TRUE, <<>>) /\ WellFormed(tif)

\* The tracks and fragments the primitives are called with.
SomeTracks ==
    {[ZeroTrack EXCEPT !.firstFragment = f, !.codec = "MP3", !.trackNumber = 1] :
        f \in {1, NTrack - 1, NFrag - 1}}

SomeFragments ==
    {[ZeroFragment EXCEPT !.firstBlock = b, !.lastBlock = b + 1] : b \in {0, ClusterBlocks}}

StoreUnchanged == UNCHANGED <<datanum, discId, files, session, pc, log>>

\* The slot popped lies in the modelled part of the track table.
AddTrack(track) ==
    /\ opCount < MaxStoreOps
    /\ getNextFreeTrackSlot(tif) \in TrackSlots
    /\ tif' = addTrack(tif, track)
    /\ dirty' = TRUE
    /\ lastOp' = [op |-> "addTrack", slot |-> getNextFreeTrackSlot(tif), track |-> track]
    /\ opCount' = opCount + 1
    /\ UNCHANGED <<provider, stream, reader, upload, cache>>
    /\ StoreUnchanged

IsLiveTrack(t, slot) ==
    slot # 0 /\ getTrack(t, slot).firstFragment # 0 /\ getTrack(t, slot).trackNumber = slot

RemoveTrack(slot) ==
    /\ opCount < MaxStoreOps
    /\ IsLiveTrack(tif, slot)
    /\ tif' = removeTrack(tif, slot)
    /\ dirty' = TRUE
    /\ lastOp' = [op |-> "removeTrack", slot |-> slot]
    /\ opCount' = opCount + 1
    /\ UNCHANGED <<provider, stream, reader, upload, cache>>
    /\ StoreUnchanged

AddFragment(fragment) ==
    /\ opCount < MaxStoreOps
    /\ tif' = addFragment(tif, fragment)
    /\ dirty' = TRUE
    /\ lastOp' = [op |-> "addFragment", slot |-> addFragmentIndex(tif)]
    /\ opCount' = opCount + 1
    /\ UNCHANGED <<provider, stream, reader, upload, cache>>
    /\ StoreUnchanged

RemoveFragment(index) ==
    /\ opCount < MaxStoreOps
    /\ index \notin {FragmentFreelist(tif)[i] : i \in 1..Len(FragmentFreelist(tif))}
    /\ tif' = removeFragment(tif, index)
    /\ dirty' = TRUE
    /\ lastOp' = [op |-> "removeFragment", slot |-> index]
    /\ opCount' = opCount + 1
    /\ UNCHANGED <<provider, stream, reader, upload, cache>>
    /\ StoreUnchanged

StoreNext ==
    \/ \E track \in SomeTracks : AddTrack(track)
    \/ \E slot \in TrackSlots \ {0} : RemoveTrack(slot)
    \/ \E fragment \in SomeFragments : AddFragment(fragment)
    \/ \E index \in FragSlots \ {0} : RemoveFragment(index)

SpecStore == StoreInit /\ [][StoreNext]_vars

(* ---------------------- specification of loading -------------------- *)
\* The generations a disc to load may carry files of.
BootGenerations == 0..2

RECURSIVE Listings(_)
Listings(S) ==
    IF S = {} THEN {<<>>}
    ELSE UNION {{<<x>> \o p : p \in Listings(S \ {x})} : x \in S}

\* The loop of findDatanum over a listing of /HMDHIFI: the value of
\* maxDatanum after it, from the value before it.
RECURSIVE findDatanum(_, _)
findDatanum(listing, maxDatanum) ==
    IF listing = <<>> THEN maxDatanum
    ELSE findDatanum(Tail(listing), IF Head(listing)[1] = "ATDATA" THEN Head(listing)[2] ELSE maxDatanum)

\* tifData before loadTifdata has run
NoImage == [FreshImage EXCEPT !.magic = "unset"]

BadImage == [FreshImage EXCEPT !.magic = "FIT "]

\* A disc before HiMD.init: one generation g with its track index and MAC
\* list, and ATDATA files of the generations in S.
BootInit ==
    \E g \in BootGenerations, S \in SUBSET BootGenerations, image \in {DiscWithTracks(1), BadImage} :
        /\ files = [name \in {AtdataName(n) : n \in S} |-> InitialTrackBlocks]
                     @@ (TrkidxName(g) :> image) @@ (MclistName(g) :> InitialMclist)
        /\ tif = NoImage
        /\ dirty = FALSE
        /\ datanum = <<>>
        /\ discId = <<>>
        /\ session = NewSession(TRUE)
        /\ pc = "findDatanum"
        /\ log = <<>>
        /\ lastOp = [op |-> "init"]
        /\ opCount = 0
        /\ provider = NewProvider
        /\ stream = NewStream
        /\ reader = NewReader
        /\ upload = NewUpload
        /\ cache = NewCache

BootUnchanged == UNCHANGED <<dirty, files, session, log, opCount, provider, stream, reader, upload, cache>>

FindDatanum ==
    /\ pc = "findDatanum"
    /\ \E listing \in Listings(DOMAIN files) :
          LET maxDatanum == findDatanum(listing, -1)
          IN  /\ lastOp' = [op |-> "findDatanum", listing |-> listing,
                            err |-> IF maxDatanum = -1 THEN "Cannot find the track index file" ELSE "ok"]
              /\ datanum' = IF maxDatanum = -1 THEN datanum ELSE <<maxDatanum>>
              /\ pc' = IF maxDatanum = -1 THEN "failed" ELSE "loadTifdata"
    /\ UNCHANGED <<tif, discId>>
    /\ BootUnchanged

LoadTifdata ==
    /\ pc = "loadTifdata"
    /\ LET name == getDatanumDependentName("TRKIDX", datanum[1])
       IN  IF name \notin DOMAIN files
           THEN /\ lastOp' = [op |-> "loadTifdata", err |-> "open failed"]
                /\ pc' = "failed"
                /\ tif' = tif
           ELSE /\ tif' = files[name]
                /\ lastOp' = [op |-> "loadTifdata",
                              err |-> IF files[name].magic # "TIF " THEN "Invalid TRKIDX...HMA file" ELSE "ok"]
                /\ pc' = IF files[name].magic # "TIF " THEN "failed" ELSE "readDiscId"
    /\ UNCHANGED <<datanum, discId>>
    /\ BootUnchanged

ReadDiscId ==
    /\ pc = "readDiscId"
    /\ LET name == getDatanumDependentName("MCLIST", datanum[1])
       IN  IF name \notin DOMAIN files
           THEN /\ lastOp' = [op |-> "readDiscId", err |-> "open failed"]
                /\ pc' = "failed"
                /\ discId' = discId
           ELSE /\ discId' = <<files[name].discId>>
                /\ lastOp' = [op |-> "readDiscId", err |-> "ok"]
                /\ pc' = "new"
    /\ UNCHANGED <<tif, datanum>>
    /\ BootUnchanged

BootNext == FindDatanum \/ LoadTifdata \/ ReadDiscId

SpecBoot == BootInit /\ [][BootNext]_vars

(* ------------------ specification of the secure session -------------- *)
DeviceEvent(what) == [kind |-> "dev", what |-> what]

FileEvent(what, name) == [kind |-> "fs", what |-> what, name |-> name]

\* The DRM opcode each driver method sends (SonyVendorUSMCDriver)
DrmOpcode(what) ==
    CASE what = "writeHostLeafID" -> 48
      [] what = "getAuthenticationStage2Info" -> 49
      [] what = "writeAuthenticationStage3Info" -> 50
      [] what = "readICV" -> 51
      [] what = "writeICV" -> 52
      [] OTHER -> 0

DeviceNonce == <<"nonce", "device">>
DeviceLeafId == <<"leaf", "device">>
DeviceIcv == <<"icv", "device">>

\* The generations the device may report in the ICV header: the one of the
\* files on the disc, and the same one a full cycle of file numbers later.
DeviceGenerations == {InitialDatanum, InitialDatanum + GenerationModulus}

\* The statements of finalizeSession that await, in program order.
FinalizeOrderIcvFirst(hasDriver) ==
    <<"calculateNewICV", "advanceATDATA", "advanceMCLIST", "advanceTRKIDX", "openMaclist">>
        \o (IF hasDriver THEN <<"writeICV">> ELSE <<>>)
        \o <<"writeGeneration", "writeDiscId", "writeMacs", "closeMaclist">>

FinalizeOrder(hasDriver) ==
    <<"calculateNewICV", "advanceATDATA", "advanceMCLIST", "advanceTRKIDX",
      "openMaclist", "writeGeneration", "writeDiscId", "writeMacs">>
        \o (IF hasDriver THEN <<"writeICV">> ELSE <<>>)
        \o <<"closeMaclist">>

\* The position after step of finalizeSession
AfterStep(step) ==
    LET order == FinalizeOrder(session.hasDriver)
        i == CHOOSE k \in 1..Len(order) : order[k] = step
    IN  IF i = Len(order) THEN "finalized" ELSE order[i + 1]

AuthSteps == {"writeHostLeafID", "getAuthenticationStage2Info", "writeAuthenticationStage3Info",
              "readICV", "loadMaclist"}

\* The positions at which the operation waits for the device or the filesystem
IoSteps == AuthSteps \cup {"advanceATDATA", "advanceMCLIST", "advanceTRKIDX", "openMaclist",
                           "writeGeneration", "writeDiscId", "writeMacs", "writeICV", "closeMaclist"}

\* The files of a generation left behind on the disc
StaleFiles(n) ==
    (AtdataName(n) :> 0) @@ (TrkidxName(n) :> FreshImage) @@ (MclistName(n) :> InitialMclist)

\* A file an earlier advanceGeneration moved out of the way.
LeftoverFiles == (<<"HJS", 0>> :> 0)

SessionInit ==
    \E n \in {1, 2}, hasDriver \in BOOLEAN, stale \in BOOLEAN, leftover \in BOOLEAN :
        Loaded(n, hasDriver,
               IF stale
               THEN StaleFiles(InitialDatanum + 1) @@ (IF leftover THEN LeftoverFiles ELSE <<>>)
               ELSE <<>>)

SessionStep(what, nextPc) ==
    /\ lastOp' = [op |-> what, err |-> "ok"]
    /\ pc' = nextPc

SessionFails(what, err) ==
    /\ lastOp' = [op |-> what, err |-> err]
    /\ pc' = "failed"

PerformAuthenticationSkipsDevice ==
    /\ pc = "new"
    /\ SessionStep("performAuthentication", "loadMaclist")
    /\ UNCHANGED <<tif, dirty, datanum, discId, files, session, log, opCount, provider, stream, reader, upload, cache>>

PerformAuthentication ==
    /\ pc = "new"
    /\ SessionStep("performAuthentication", IF session.hasDriver THEN "writeHostLeafID" ELSE "loadMaclist")
    /\ UNCHANGED <<tif, dirty, datanum, discId, files, session, log, opCount, provider, stream, reader, upload, cache>>

WriteHostLeafID ==
    /\ pc = "writeHostLeafID"
    /\ log' = Append(log, DeviceEvent("writeHostLeafID"))
    /\ SessionStep("writeHostLeafID", "getAuthenticationStage2Info")
    /\ UNCHANGED <<tif, dirty, datanum, discId, files, session, opCount, provider, stream, reader, upload, cache>>

GoodDeviceMac == retailMac(<<DiscId, HostNonce, DeviceNonce>>, MAIN_KEY)

hostMac == retailMac(<<DiscId, DeviceNonce, HostNonce>>, MAIN_KEY)

ForgedMac == <<"retailmac", "forged">>

GetAuthenticationStage2InfoUnverified ==
    /\ pc = "getAuthenticationStage2Info"
    /\ log' = Append(log, DeviceEvent("getAuthenticationStage2Info"))
    /\ session' = [session EXCEPT !.deviceLeafId = <<DeviceLeafId>>,
                                  !.deviceNonce = <<DeviceNonce>>,
                                  !.discId = <<DiscId>>]
    /\ \E mac \in {GoodDeviceMac, ForgedMac} :
          /\ lastOp' = [op |-> "getAuthenticationStage2Info", err |-> "ok", mac |-> mac]
          /\ pc' = "writeAuthenticationStage3Info"
    /\ UNCHANGED <<tif, dirty, datanum, discId, files, opCount, provider, stream, reader, upload, cache>>

\* lastOp keeps the MAC the device sent.
GetAuthenticationStage2Info ==
    /\ pc = "getAuthenticationStage2Info"
    /\ log' = Append(log, DeviceEvent("getAuthenticationStage2Info"))
    /\ session' = [session EXCEPT !.deviceLeafId = <<DeviceLeafId>>,
                                  !.deviceNonce = <<DeviceNonce>>,
                                  !.discId = <<DiscId>>]
    /\ \E mac \in {GoodDeviceMac, ForgedMac} :
          LET recalculatedMac == retailMac(<<DiscId, session.hostNonce, DeviceNonce>>, MAIN_KEY)
              matches == (mac = recalculatedMac)
          IN  /\ lastOp' = [op |-> "getAuthenticationStage2Info",
                            err |-> IF matches THEN "ok" ELSE "Device MAC doesn't match!",
                            mac |-> mac]
              /\ pc' = IF matches THEN "writeAuthenticationStage3Info" ELSE "failed"
    /\ UNCHANGED <<tif, dirty, datanum, discId, files, opCount, provider, stream, reader, upload, cache>>

WriteAuthenticationStage3Info ==
    /\ pc = "writeAuthenticationStage3Info"
    /\ log' = Append(log, DeviceEvent("writeAuthenticationStage3Info"))
    /\ SessionStep("writeAuthenticationStage3Info", "readICV")
    /\ UNCHANGED <<tif, dirty, datanum, discId, files, session, opCount, provider, stream, reader, upload, cache>>

SessionKey == retailMac(<<DiscId, GoodDeviceMac, hostMac>>, MAIN_KEY)

\* The header as the device sends it, for generation g
DeviceHeader(g) == [flag |-> 0, generation |-> g]

\* The icvMac the device returns is recomputed (over the header as already
\* rewritten in place) but the comparison is commented out. lastOp keeps
\* what the device sent.
ReadICV ==
    /\ pc = "readICV"
    /\ log' = Append(log, DeviceEvent("readICV"))
    /\ \E g \in DeviceGenerations :
       \E icvMac \in {createIcvMac(<<DeviceHeader(g), DeviceIcv>>, SessionKey), ForgedMac} :
          /\ session' = [session EXCEPT
                           !.currentIcv = <<DeviceIcv>>,
                           !.currentIcvHeader = <<[DeviceHeader(g) EXCEPT !.flag = 32,
                                                                         !.generation = g + 1]>>,
                           !.currentGeneration = <<g + 1>>,
                           !.sessionKey = <<SessionKey>>]
          /\ lastOp' = [op |-> "readICV", err |-> "ok", header |-> DeviceHeader(g),
                        icv |-> DeviceIcv, icvMac |-> icvMac]
    /\ pc' = "loadMaclist"
    /\ UNCHANGED <<tif, dirty, datanum, discId, files, opCount, provider, stream, reader, upload, cache>>

LoadMaclist ==
    /\ pc = "loadMaclist"
    /\ LET name == getDatanumDependentName("MCLIST", datanum[1])
       IN  IF name \notin DOMAIN files
           THEN /\ SessionFails("loadMaclist", "open failed")
                /\ UNCHANGED <<session, log>>
           ELSE /\ log' = Append(log, FileEvent("read", name))
                /\ IF files[name].ekbid # EkbNumber
                   THEN /\ SessionFails("loadMaclist", "The MAC list has been verified using a different EKB!")
                        /\ UNCHANGED session
                   ELSE /\ session' = [session EXCEPT
                                         !.headKey = <<decryptMaclistKey(files[name].headKey)>>,
                                         !.bodyKey = <<decryptMaclistKey(files[name].bodyKey)>>,
                                         !.allMacs = <<files[name].macs>>]
                        /\ SessionStep("loadMaclist", "authenticated")
    /\ UNCHANGED <<tif, dirty, datanum, discId, files, opCount, provider, stream, reader, upload, cache>>

\* uploadMacDependent / uploadStreamingMacDependent with their flush; a
\* thrown error leaves the image unflushed.
UploadMacDependent(streaming, trackKey, fragmentKey, blockCount, title, album, artist) ==
    /\ pc = "authenticated"
    /\ LET atdata == getDatanumDependentName("ATDATA", datanum[1])
           trkidx == getDatanumDependentName("TRKIDX", datanum[1])
           r == uploadMacDependent(tif, session.allMacs, files[atdata], streaming, trackKey,
                                   fragmentKey, blockCount, title, album, artist)
       IN  /\ tif' = r.tif
           /\ session' = [session EXCEPT !.allMacs = r.allMacs]
           /\ dirty' = (r.err # "ok")
           /\ files' = [files EXCEPT ![atdata] = @ + r.blocks,
                                     ![trkidx] = IF r.err = "ok" THEN r.tif ELSE @]
           /\ lastOp' = [op |-> IF streaming THEN "uploadStreamingMacDependent"
                                ELSE "uploadMacDependent",
                         err |-> r.err, slot |-> getNextFreeTrackSlot(tif)]
    /\ opCount' = opCount + 1
    /\ UNCHANGED <<provider, stream, reader, upload, cache>>
    /\ UNCHANGED <<datanum, discId, pc, log>>

\* finalizeSession up to its first await: calculateNewICV concatenates the
\* disc id, which only the device supplies.
CalculateNewICV ==
    /\ pc = "authenticated"
    /\ IF session.discId = <<>> \/ session.headKey = <<>> \/ session.allMacs = <<>>
       THEN /\ SessionFails("finalizeSession", "TypeError")
            /\ UNCHANGED <<session, log>>
       ELSE LET generation == IF session.currentGeneration = <<>> THEN 0
                              ELSE session.currentGeneration[1]
                head == <<generation, EkbNumber, session.discId[1]>>
                icv == <<retailMac(head, session.headKey[1]),
                         retailMac(session.allMacs[1], session.bodyKey[1])>>
            IN  /\ session' = [session EXCEPT !.currentIcv = <<icv>>]
                /\ log' = Append(log, [kind |-> "session", what |-> "calculateNewICV",
                                       macs |-> session.allMacs[1]])
                /\ SessionStep("finalizeSession", AfterStep("calculateNewICV"))
    /\ UNCHANGED <<tif, dirty, datanum, discId, files, opCount, provider, stream, reader, upload, cache>>

AdvanceStepOf(e) ==
    CASE e = "ATDATA" -> "advanceATDATA"
      [] e = "MCLIST" -> "advanceMCLIST"
      [] e = "TRKIDX" -> "advanceTRKIDX"

HjsNames == {<<"HJS", n>> : n \in 0..3}

\* the last NNNNNNNN.HJS name not in use
LastFreeHjsName(fs) ==
    CHOOSE name \in HjsNames \ DOMAIN fs :
        \A other \in HjsNames \ DOMAIN fs : name[2] >= other[2]

\* the first NNNNNNNN.HJS name not in use
FreeHjsName(fs) ==
    CHOOSE name \in HjsNames \ DOMAIN fs :
        \A other \in HjsNames \ DOMAIN fs : name[2] <= other[2]

Rename(fs, from, to) ==
    [name \in (DOMAIN fs \ {from}) \cup {to} |-> IF name = to THEN fs[from] ELSE fs[name]]

\* One iteration of the loop of HiMD.advanceGeneration; datanum is assigned
\* after the last one.
AdvanceGeneration(e) ==
    /\ pc = AdvanceStepOf(e)
    /\ LET newDataNum == JsRem(session.currentGeneration[1], GenerationModulus)
           newName == getDatanumDependentName(e, newDataNum)
           oldName == getDatanumDependentName(e, datanum[1])
           moved == newName \in DOMAIN files
           files1 == IF moved THEN Rename(files, newName, FreeHjsName(files)) ELSE files
           log1 == IF moved THEN Append(log, FileEvent("rename", newName)) ELSE log
       IN  IF oldName \notin DOMAIN files1
           THEN /\ files' = files1
                /\ log' = log1
                /\ SessionFails("advanceGeneration", "rename failed")
                /\ UNCHANGED datanum
           ELSE /\ files' = Rename(files1, oldName, newName)
                /\ log' = Append(log1, FileEvent("rename", oldName))
                /\ SessionStep("advanceGeneration", AfterStep(AdvanceStepOf(e)))
                /\ datanum' = IF e = "TRKIDX" THEN <<newDataNum>> ELSE datanum
    /\ UNCHANGED <<tif, dirty, discId, session, opCount, provider, stream, reader, upload, cache>>

OpenMaclistForWriting ==
    /\ pc = "openMaclist"
    /\ LET name == getDatanumDependentName("MCLIST", datanum[1])
       IN  IF name \notin DOMAIN files
           THEN SessionFails("openMaclistForWriting", "open failed") /\ UNCHANGED log
           ELSE /\ log' = Append(log, FileEvent("open", name))
                /\ SessionStep("openMaclistForWriting", AfterStep("openMaclist"))
    /\ UNCHANGED <<tif, dirty, datanum, discId, files, session, opCount, provider, stream, reader, upload, cache>>

MaclistWrite(step, offset) ==
    /\ pc = step
    /\ LET name == getDatanumDependentName("MCLIST", datanum[1])
       IN  /\ files' = [files EXCEPT ![name] =
                          CASE offset = 32 -> [@ EXCEPT !.generation = session.currentGeneration[1]]
                            [] offset = 64 -> [@ EXCEPT !.discId = session.discId[1]]
                            [] offset = 112 -> [@ EXCEPT !.macs = session.allMacs[1]]]
           /\ log' = Append(log, [kind |-> "fs", what |-> "write", name |-> name,
                                  offset |-> offset])
    /\ SessionStep(step, AfterStep(step))
    /\ UNCHANGED <<tif, dirty, datanum, discId, session, opCount, provider, stream, reader, upload, cache>>

WriteICV ==
    /\ pc = "writeICV"
    /\ session.hasDriver
    /\ LET newMac == createIcvMac(<<session.currentIcvHeader[1], session.currentIcv[1]>>,
                                  session.sessionKey[1])
       IN  log' = Append(log, [kind |-> "dev", what |-> "writeICV",
                               header |-> session.currentIcvHeader[1],
                               icv |-> session.currentIcv[1], mac |-> newMac])
    /\ SessionStep("writeICV", AfterStep("writeICV"))
    /\ UNCHANGED <<tif, dirty, datanum, discId, files, session, opCount, provider, stream, reader, upload, cache>>

CloseMaclist ==
    /\ pc = "closeMaclist"
    /\ SessionStep("closeMaclist", AfterStep("closeMaclist"))
    /\ UNCHANGED <<tif, dirty, datanum, discId, files, session, log, opCount, provider, stream, reader, upload, cache>>

\* The device or the filesystem rejects the call the operation waits on.
IoFailure ==
    /\ pc \in IoSteps
    /\ SessionFails(pc, "I/O error")
    /\ UNCHANGED <<tif, dirty, datanum, discId, files, session, log, opCount, provider, stream, reader, upload, cache>>

SessionNext ==
    \/ PerformAuthentication
    \/ WriteHostLeafID
    \/ GetAuthenticationStage2Info
    \/ WriteAuthenticationStage3Info
    \/ ReadICV
    \/ LoadMaclist
    \/ /\ opCount < MaxSessionUploads
       /\ \E streaming \in BOOLEAN, trackKey \in Keys, title \in {<<>>, <<[id |-> "A", len |-> 2]>>} :
             UploadMacDependent(streaming, trackKey, <<"key", 1>>, 1, title, <<>>, <<>>)
    \/ CalculateNewICV
    \/ \E e \in {"ATDATA", "MCLIST", "TRKIDX"} : AdvanceGeneration(e)
    \/ OpenMaclistForWriting
    \/ MaclistWrite("writeGeneration", 32)
    \/ MaclistWrite("writeDiscId", 64)
    \/ MaclistWrite("writeMacs", 112)
    \/ WriteICV
    \/ CloseMaclist
    \/ IoFailure

SpecSession == SessionInit /\ [][SessionNext]_vars

(* ---------------- specification of advanceGeneration ------------------ *)
\* The generation numbers advanceGeneration is called with: every file
\* number, the current one included, over two cycles.
NewGenerations == 0..(2 * GenerationModulus - 1)

\* A loaded disc about to run advanceGeneration(g), with or without files of
\* generation g % 16 left behind.
GenerationInit ==
    \E g \in NewGenerations, stale \in BOOLEAN, leftover \in BOOLEAN :
        /\ tif = DiscWithTracks(1)
        /\ dirty = FALSE
        /\ datanum = <<InitialDatanum>>
        /\ discId = <<DiscId>>
        /\ files = GenerationFiles(DiscWithTracks(1), InitialDatanum)
                      @@ (IF stale THEN StaleFiles(g % GenerationModulus) ELSE <<>>)
                      @@ (IF leftover THEN LeftoverFiles ELSE <<>>)
        /\ session = [NewSession(TRUE) EXCEPT !.currentGeneration = <<g>>]
        /\ pc = "advanceATDATA"
        /\ log = <<>>
        /\ lastOp = [op |-> "init"]
        /\ opCount = 0
        /\ provider = NewProvider
        /\ stream = NewStream
        /\ reader = NewReader
        /\ upload = NewUpload
        /\ cache = NewCache

GenerationNext == \E e \in {"ATDATA", "MCLIST", "TRKIDX"} : AdvanceGeneration(e)

SpecGeneration == GenerationInit /\ [][GenerationNext]_vars

(* ------------------ specification of the track slot ------------------- *)
\* The JavaScript operators a & b and a | b on 16-bit operands.
RECURSIVE BitAnd(_, _)
BitAnd(a, b) ==
    IF a = 0 \/ b = 0 THEN 0
    ELSE (IF a % 2 = 1 /\ b % 2 = 1 THEN 1 ELSE 0) + 2 * BitAnd(a \div 2, b \div 2)

RECURSIVE BitOr(_, _)
BitOr(a, b) ==
    IF a = 0 THEN b
    ELSE IF b = 0 THEN a
    ELSE (IF a % 2 = 1 \/ b % 2 = 1 THEN 1 ELSE 0) + 2 * BitOr(a \div 2, b \div 2)

\* parseDOSTime of the words <<date, time>>; 61696 is the mask 0xf100 the
\* code applies for the hour, 2016 is 0x7e0, 480 is 0x1e0, 65024 is 0xfe00.
parseDOSTime(raw) ==
    LET date == raw[1]
        time == raw[2]
    IN  [second |-> BitAnd(time, 31) * 2,
         minute |-> BitAnd(time, 2016) \div 32,
         hour |-> BitAnd(time, 61696) \div 2048,
         day |-> BitAnd(date, 31),
         month |-> (BitAnd(date, 480) \div 32) - 1,
         year |-> (BitAnd(date, 65024) \div 512) + 80]

serializeDosTime(parsed) ==
    LET date == BitOr(BitOr(parsed.day, (parsed.month + 1) * 32), (parsed.year - 80) * 512)
        time == BitOr(BitOr(parsed.second \div 2, parsed.minute * 32), parsed.hour * 2048)
    IN  <<Uint16(date), Uint16(time)>>

\* The 0x50 bytes of a track slot: the DOS times as their two 16-bit words,
\* the integer fields as numbers, fields stands for the byte ranges getTrack
\* slices and writeTrack copies back (key, mac, codecId, codecInfo,
\* contentId, lt, dest, xcc, ct, cc, cn, ekbNumber, trackInAlbum,
\* firstFragment, trackNumber, seconds), unread for bytes 15, 46 and 47.
getRawTrack(raw) ==
    [recordingTime |-> parseDOSTime(raw.recordingTime),
     titleIndex |-> raw.titleIndex,
     artistIndex |-> raw.artistIndex,
     albumIndex |-> raw.albumIndex,
     fields |-> raw.fields,
     licenseStartTime |-> parseDOSTime(raw.licenseStartTime),
     licenseEndTime |-> parseDOSTime(raw.licenseEndTime)]

writeRawTrack(raw, track) ==
    [raw EXCEPT !.recordingTime = serializeDosTime(track.recordingTime),
                !.titleIndex = Uint16(track.titleIndex),
                !.artistIndex = Uint16(track.artistIndex),
                !.albumIndex = Uint16(track.albumIndex),
                !.fields = track.fields,
                !.licenseStartTime = serializeDosTime(track.licenseStartTime),
                !.licenseEndTime = serializeDosTime(track.licenseEndTime)]

\* Date and time words: zero, 01:00:00, 02:00:00, 17:33:58 and all ones.
DosWords == {0, 2048, 4096, 35901, 65535}

RawSlots ==
    [recordingTime : DosWords \X DosWords,
     titleIndex : {0, 1},
     artistIndex : {0},
     albumIndex : {0, 65535},
     fields : {Zero},
     unread : {Zero},
     licenseStartTime : {<<0, 0>>, <<65535, 65535>>},
     licenseEndTime : {<<0, 0>>}]

\* writeTrack(s, getTrack(s)) on a slot of the given content
WriteTrackBack(raw) ==
    /\ pc = "new"
    /\ lastOp.op = "init"
    /\ lastOp' = [op |-> "writeTrack", slot |-> raw, track |-> getRawTrack(raw),
                  written |-> writeRawTrack(raw, getRawTrack(raw))]
    /\ UNCHANGED <<tif, dirty, datanum, discId, files, session, pc, log, opCount,
                   provider, stream, reader, upload, cache>>

SlotNext == \E raw \in RawSlots : WriteTrackBack(raw)

SlotInit == Loaded(1, FALSE, <<>>)

SpecSlot == SlotInit /\ [][SlotNext]_vars

(* --------------------- specification of the disc ---------------------- *)
\* The session after performAuthentication against the device
AuthenticatedSession ==
    [NewSession(TRUE) EXCEPT
        !.deviceLeafId = <<DeviceLeafId>>,
        !.deviceNonce = <<DeviceNonce>>,
        !.discId = <<DiscId>>,
        !.currentIcv = <<DeviceIcv>>,
        !.currentIcvHeader = <<[flag |-> 32, generation |-> InitialDatanum + 1]>>,
        !.currentGeneration = <<InitialDatanum + 1>>,
        !.sessionKey = <<SessionKey>>,
        !.headKey = <<decryptMaclistKey(HeadKeyCipher)>>,
        !.bodyKey = <<decryptMaclistKey(BodyKeyCipher)>>,
        !.allMacs = <<InitialMclist.macs>>]

AuthenticationLog ==
    <<DeviceEvent("writeHostLeafID"), DeviceEvent("getAuthenticationStage2Info"),
      DeviceEvent("writeAuthenticationStage3Info"), DeviceEvent("readICV"),
      FileEvent("read", MclistName(InitialDatanum))>>

DiscInit ==
    \E n \in InitialTrackCounts :
        /\ tif = DiscWithTracks(n)
        /\ dirty = FALSE
        /\ datanum = <<InitialDatanum>>
        /\ discId = <<DiscId>>
        /\ files = GenerationFiles(DiscWithTracks(n), InitialDatanum)
        /\ session = AuthenticatedSession
        /\ pc = "authenticated"
        /\ log = AuthenticationLog
        /\ lastOp = [op |-> "init"]
        /\ opCount = 0
        /\ provider = NewProvider
        /\ stream = NewStream
        /\ reader = NewReader
        /\ upload = NewUpload
        /\ cache = NewCache

DiscUnchanged == UNCHANGED <<datanum, discId, session, pc, log>>

TrackIndices == 0..(getTrackCount(tif) - 1)

\* HiMD.flush: the image is written to TRKIDX when it is dirty
Flushed(fs, t) == [fs EXCEPT ![getDatanumDependentName("TRKIDX", datanum[1])] = t]

UploadMP3Track(blockCount, frameCount, title, album, artist) ==
    /\ LET atdata == getDatanumDependentName("ATDATA", datanum[1])
           r == uploadMP3Track(tif, files[atdata], blockCount, frameCount, title, album, artist)
       IN  /\ tif' = r.tif
           /\ dirty' = (r.err # "ok")
           /\ files' = [IF r.err = "ok" THEN Flushed(files, r.tif) ELSE files
                            EXCEPT ![atdata] = @ + r.blocks]
           /\ lastOp' = [op |-> "uploadMP3Track", err |-> r.err,
                         slot |-> getNextFreeTrackSlot(tif)]
    /\ opCount' = opCount + 1
    /\ UNCHANGED <<provider, stream, reader, upload, cache>>
    /\ DiscUnchanged

\* The synchronous operations leave the image dirty; nothing is flushed.
RenameTrack(index, which, value) ==
    /\ index \in TrackIndices
    /\ LET r == renameTrack(tif, index, which, value)
       IN  /\ tif' = r.tif
           /\ lastOp' = [op |-> "renameTrack", err |-> r.err]
    /\ dirty' = TRUE
    /\ opCount' = opCount + 1
    /\ UNCHANGED <<provider, stream, reader, upload, cache>>
    /\ UNCHANGED files
    /\ DiscUnchanged

MoveTrack(from, to) ==
    /\ from \in TrackIndices
    /\ to \in TrackIndices
    /\ tif' = moveTrack(tif, from, to)
    /\ dirty' = TRUE
    /\ lastOp' = [op |-> "moveTrack", err |-> "ok"]
    /\ opCount' = opCount + 1
    /\ UNCHANGED <<provider, stream, reader, upload, cache>>
    /\ UNCHANGED files
    /\ DiscUnchanged

RewriteGroups(groups) ==
    /\ \A i \in 1..Len(groups) : groups[i] \subseteq TrackIndices
    /\ LET r == rewriteGroups(tif, groups, <<>>)
       IN  /\ tif' = r.tif
           /\ lastOp' = [op |-> "rewriteGroups", err |-> r.err]
    /\ dirty' = TRUE
    /\ opCount' = opCount + 1
    /\ UNCHANGED <<provider, stream, reader, upload, cache>>
    /\ UNCHANGED files
    /\ DiscUnchanged

DeleteGroup(index) ==
    /\ index < getGroupCount(tif)
    /\ tif' = deleteGroup(tif, index)
    /\ dirty' = TRUE
    /\ lastOp' = [op |-> "deleteGroup", err |-> "ok"]
    /\ opCount' = opCount + 1
    /\ UNCHANGED <<provider, stream, reader, upload, cache>>
    /\ UNCHANGED files
    /\ DiscUnchanged

DeleteTracks(tracksToDelete) ==
    /\ tracksToDelete # {}
    /\ tracksToDelete \subseteq TrackIndices
    /\ LET atdata == getDatanumDependentName("ATDATA", datanum[1])
           r == deleteTracks(tif, files[atdata], tracksToDelete)
       IN  /\ tif' = r.tif
           /\ dirty' = (r.err # "ok")
           /\ files' = [IF r.err = "ok" THEN Flushed(files, r.tif) ELSE files
                            EXCEPT ![atdata] = r.blocks]
           /\ lastOp' = [op |-> "deleteTracks", err |-> r.err,
                         blocksToFree |-> r.blocksToFree, tracksToDelete |-> tracksToDelete]
    /\ opCount' = opCount + 1
    /\ UNCHANGED <<provider, stream, reader, upload, cache>>
    /\ DiscUnchanged

\* The index sets a run deletes: one track, or the first two
DeleteSets == {{i} : i \in 0..(NTrack - 2)} \cup {{0, 1}}

\* The groupings a run asks for
GroupLists == {<<{0}>>, <<{0, 1}>>, <<{1, 2}>>, <<{1}, {0}>>}

DiscNext ==
    \/ opCount < MaxOps /\ \E blockCount \in 1..MaxBlocks :
                              UploadMP3Track(blockCount, 1, <<>>, <<>>, <<>>)
    \/ opCount < MaxOps /\ \E streaming \in BOOLEAN :
                              UploadMacDependent(streaming, <<"key", 1>>, <<"key", 2>>,
                                                 ClusterBlocks, <<>>, <<>>, <<>>)
    \/ opCount < MaxOps /\ RenameTrack(0, "title", <<[id |-> "A", len |-> 2]>>)
    \/ opCount < MaxOps /\ \E from \in 0..(NTrack - 2) : MoveTrack(from, from + 1)
    \/ opCount < MaxOps /\ \E groups \in GroupLists : RewriteGroups(groups)
    \/ opCount < MaxOps /\ DeleteGroup(0)
    \/ opCount < MaxOps /\ \E tracksToDelete \in DeleteSets : DeleteTracks(tracksToDelete)

SpecDisc == DiscInit /\ [][DiscNext]_vars

(* --------------------- specification of the groups -------------------- *)
\* rewriteGroups where every requested group carries the given title
RewriteTitledGroups(groups, title) ==
    /\ \A i \in 1..Len(groups) : groups[i] \subseteq TrackIndices
    /\ LET r == rewriteGroups(tif, groups, title)
       IN  /\ tif' = r.tif
           /\ lastOp' = [op |-> "rewriteGroups", err |-> r.err, groups |-> groups,
                         groupCount |-> getGroupCount(tif)]
    /\ dirty' = TRUE
    /\ opCount' = opCount + 1
    /\ UNCHANGED <<provider, stream, reader, upload, cache>>
    /\ UNCHANGED files
    /\ DiscUnchanged

GroupsNext ==
    \/ /\ opCount < MaxTrackOps
       /\ \E groups \in GroupLists, title \in {<<>>, <<[id |-> "A", len |-> 2]>>} :
             RewriteTitledGroups(groups, title)
    \/ /\ opCount < MaxTrackOps
       /\ \E index \in 0..(MaxGroups - 1) : DeleteGroup(index)

SpecGroups == DiscInit /\ [][GroupsNext]_vars

(* ------------- specification of the worker-backed providers ------------ *)
\* Blocks are opaque; encryptBlock and decryptBlock under the keys of the call.
encryptBlock(plaintext) == <<"enc", plaintext>>

decryptBlock(audioData) == <<"dec", audioData>>

BusyError == "Cannot use the same decryptor in 2 contexts at the same time!"

\* The calls a client makes: encryptor(...) or decryptor(...) on one of two blocks.
CallActions == {"encrypt", "decrypt"}

CallBlocks == {<<"block", 1>>, <<"block", 2>>}

\* The state after makeAsyncWorker / makeAsyncCryptoBlockProvider returned.
WorkerInit == Loaded(0, FALSE, <<>>)

WorkerUnchanged ==
    UNCHANGED <<tif, dirty, datanum, discId, files, session, pc, log, lastOp, opCount>>

\* encryptor / decryptor without the currentWaiting test.
ProviderCallUnguarded(action, data) ==
    /\ Len(provider.calls) < MaxCalls
    /\ provider' = [provider EXCEPT
           !.calls = Append(@, [action |-> action, data |-> data, state |-> "waiting", result |-> <<>>]),
           !.currentWaiting = <<Len(provider.calls) + 1>>,
           !.toWorker = Append(@, [action |-> action, data |-> data])]
    /\ UNCHANGED <<stream, reader, upload, cache>>
    /\ WorkerUnchanged

\* encryptor / decryptor: throws while a call waits, else registers the
\* promise's resolve function as currentWaiting and posts the request.
ProviderCall(action, data) ==
    /\ Len(provider.calls) < MaxCalls
    /\ IF provider.currentWaiting # <<>>
       THEN provider' = [provider EXCEPT
                !.calls = Append(@, [action |-> action, data |-> data,
                                     state |-> "rejected", result |-> <<BusyError>>])]
       ELSE provider' = [provider EXCEPT
                !.calls = Append(@, [action |-> action, data |-> data,
                                     state |-> "waiting", result |-> <<>>]),
                !.currentWaiting = <<Len(provider.calls) + 1>>,
                !.toWorker = Append(@, [action |-> action, data |-> data])]
    /\ UNCHANGED <<stream, reader, upload, cache>>
    /\ WorkerUnchanged

\* The worker thread's message handler for 'encrypt' and 'decrypt'.
WorkerCrypt ==
    /\ provider.toWorker # <<>>
    /\ LET msg == Head(provider.toWorker)
           reply == IF msg.action = "decrypt" THEN decryptBlock(msg.data) ELSE encryptBlock(msg.data)
       IN  provider' = [provider EXCEPT !.toWorker = Tail(@), !.toMain = Append(@, reply)]
    /\ UNCHANGED <<stream, reader, upload, cache>>
    /\ WorkerUnchanged

\* resolver: currentWaiting?.(data); currentWaiting = null.
ProviderResolver ==
    /\ provider.toMain # <<>>
    /\ LET data == Head(provider.toMain)
           resolved == IF provider.currentWaiting = <<>> THEN provider.calls
                       ELSE [provider.calls EXCEPT ![provider.currentWaiting[1]] =
                                [@ EXCEPT !.state = "resolved", !.result = <<data>>]]
       IN  provider' = [provider EXCEPT !.toMain = Tail(@), !.calls = resolved, !.currentWaiting = <<>>]
    /\ UNCHANGED <<stream, reader, upload, cache>>
    /\ WorkerUnchanged

ProviderNext ==
    \/ \E action \in CallActions, data \in CallBlocks : ProviderCall(action, data)
    \/ WorkerCrypt
    \/ ProviderResolver

SpecWorker == WorkerInit /\ [][ProviderNext]_vars

(* ---------------- specification of the streaming provider -------------- *)
\* The blocks createHiMDBlockGenerator yields for the raw data given.
StreamLengths == 0..MaxStreamBlocks

NullMessage == <<"null">>

\* queueNextChunk that pushes the promise and posts nothing
queueNextChunkUnposted(s) == [s EXCEPT !.chunks = Append(@, <<"pending">>)]

\* queueNextChunk: push a pending promise, post 'next'.
queueNextChunk(s) ==
    [s EXCEPT !.chunks = Append(@, <<"pending">>), !.toWorker = Append(@, "next")]

\* The consumer's loop from `await chunks[i]` on, run while chunk i is settled:
\* delete chunks[i], leave the loop on null, else yield the block.
ConsumerTake(s) ==
    IF s.i + 1 \in DOMAIN s.chunks /\ s.chunks[s.i + 1][1] = "resolved"
    THEN [s EXCEPT !.chunks[s.i + 1] = <<"deleted">>,
                   !.consumer = IF s.chunks[s.i + 1][2] = NullMessage THEN "done" ELSE "holding",
                   !.held = IF s.chunks[s.i + 1][2] = NullMessage THEN <<>> ELSE <<s.chunks[s.i + 1][2]>>]
    ELSE [s EXCEPT !.consumer = "awaiting", !.held = <<>>]

\* process(params): initWorker posts 'queuedInit' with the raw data.
StreamProcess(total) ==
    /\ stream.consumer = "new"
    /\ stream' = [stream EXCEPT !.consumer = "init", !.total = total,
                                !.toWorker = Append(@, "queuedInit")]
    /\ UNCHANGED <<provider, reader, upload, cache>>
    /\ WorkerUnchanged

\* The worker thread's message handler for 'queuedInit' and 'next'.
WorkerQueued ==
    /\ stream.toWorker # <<>>
    /\ LET action == Head(stream.toWorker)
           done == stream.generator >= stream.total
           reply == IF action = "queuedInit" THEN <<"queuedInit">>
                    ELSE IF done THEN NullMessage
                    ELSE <<"block", stream.generator + 1>>
       IN  stream' = [stream EXCEPT
               !.toWorker = Tail(@),
               !.toMain = Append(@, reply),
               !.generator = IF action = "queuedInit" THEN 0
                             ELSE IF done THEN @ ELSE @ + 1]
    /\ UNCHANGED <<provider, reader, upload, cache>>
    /\ WorkerUnchanged

\* A message event on the main thread. While initWorker waits it resumes
\* process(): handler registered, queueNextChunk(), i = 0, await chunks[0].
\* Afterwards handler calls the resolver of the promise pushed last: on a
\* block it calls queueNextChunk() and then resolves that promise, and a
\* consumer awaiting it continues. On the reply to another 'queuedInit' the
\* resolver throws at data.block.audioData and the promise stays pending.
StreamMessage ==
    /\ stream.toMain # <<>>
    /\ stream.consumer \in {"init", "awaiting", "holding"}
    /\ LET msg == Head(stream.toMain)
           received == [stream EXCEPT !.toMain = Tail(@)]
           last == Len(stream.chunks)
           queued == IF msg # NullMessage THEN queueNextChunk(received) ELSE received
           settled == [queued EXCEPT !.chunks[last] = <<"resolved", msg>>]
       IN  stream' = IF stream.consumer = "init"
                     THEN [queueNextChunk(received) EXCEPT !.consumer = "awaiting", !.i = 0]
                     ELSE IF msg = <<"queuedInit">> THEN received
                     ELSE IF stream.consumer = "awaiting" THEN ConsumerTake(settled)
                     ELSE settled
    /\ UNCHANGED <<provider, reader, upload, cache>>
    /\ WorkerUnchanged

\* The consumer asks the generator for the next block: i++, await chunks[i].
ConsumerNext ==
    /\ stream.consumer = "holding"
    /\ stream' = ConsumerTake([stream EXCEPT !.i = @ + 1])
    /\ UNCHANGED <<provider, reader, upload, cache>>
    /\ WorkerUnchanged

StreamNext ==
    \/ \E total \in StreamLengths : StreamProcess(total)
    \/ WorkerQueued
    \/ StreamMessage
    \/ ConsumerNext

SpecStream == WorkerInit /\ [][StreamNext]_vars

\* The worker answers every request, the event loop delivers every message
\* and the consumer keeps asking for the next block.
SpecStreamFair ==
    /\ WorkerInit
    /\ [][StreamNext]_vars
    /\ WF_vars(WorkerQueued)
    /\ WF_vars(StreamMessage)
    /\ WF_vars(ConsumerNext)

(* ------------- specification of a second process() call --------------- *)
\* process(params) called again on the provider while the iteration started
\* first is past initWorker: nothing is tested, initWorker posts
\* 'queuedInit' for raw data of the same length.
StreamProcessAgain ==
    /\ stream.consumer \in {"awaiting", "holding"}
    /\ lastOp.op = "init"
    /\ stream' = [stream EXCEPT !.toWorker = Append(@, "queuedInit")]
    /\ lastOp' = [op |-> "process", err |-> "ok", i |-> stream.i]
    /\ UNCHANGED <<tif, dirty, datanum, discId, files, session, pc, log, opCount,
                   provider, reader, upload, cache>>

ReentryNext ==
    \/ \E total \in StreamLengths : StreamProcess(total)
    \/ WorkerQueued
    \/ StreamMessage
    \/ ConsumerNext
    \/ StreamProcessAgain

SpecReentry == WorkerInit /\ [][ReentryNext]_vars

(* ------------------ specification of the string table ------------------ *)
\* The texts stored: encodings of 1, 14, 15, 29 and 43 bytes.
StringTexts ==
    {[id |-> "a", len |-> 1],
     [id |-> "b", len |-> StringChunkLen],
     [id |-> "c", len |-> StringChunkLen + 1],
     [id |-> "d", len |-> 2 * StringChunkLen + 1],
     [id |-> "e", len |-> 3 * StringChunkLen + 1]}

StringsInit == Loaded(0, FALSE, <<>>)

StringsUnchanged ==
    UNCHANGED <<datanum, discId, files, session, pc, log, provider, stream, reader, upload, cache>>

\* The roots of the chains stored by addString and not owned by group 0.
StringRoots(t) ==
    {index \in StringSlots \ {0} :
        /\ getStringChunk(t, index).type \notin {UNUSED, CONTINUATION}
        /\ getGroup(t, 0).titleIndex # index}

\* renameGroup(himd, groupIndex, title), title <<>> for null: [err, tif]; when
\* addString throws the old title is freed already and the group not written.
renameGroup(t, groupIndex, title) ==
    LET discTitleGroup == getGroup(t, groupIndex + 1)
        t1 == IF discTitleGroup.titleIndex # 0 THEN removeString(t, discTitleGroup.titleIndex) ELSE t
        added == addString(t1, title[1], GROUP)
    IN  IF title = <<>>
        THEN [err |-> "ok", tif |-> writeGroup(t1, groupIndex + 1, [discTitleGroup EXCEPT !.titleIndex = 0])]
        ELSE IF added.err # "ok" THEN [err |-> added.err, tif |-> t1]
        ELSE [err |-> "ok",
              tif |-> writeGroup(added.tif, groupIndex + 1,
                                 [discTitleGroup EXCEPT !.titleIndex = added.index])]

renameDisc(t, title) == renameGroup(t, -1, title)

AddString(text, type) ==
    /\ opCount < MaxStringOps
    /\ LET added == addString(tif, text, type)
       IN  /\ tif' = added.tif
           /\ lastOp' = [op |-> "addString", err |-> added.err, index |-> added.index,
                         text |-> text, type |-> type]
    /\ dirty' = TRUE
    /\ opCount' = opCount + 1
    /\ StringsUnchanged

RemoveString(root) ==
    /\ opCount < MaxStringOps
    /\ root \in StringRoots(tif)
    /\ tif' = removeString(tif, root)
    /\ lastOp' = [op |-> "removeString", err |-> "ok", root |-> root]
    /\ dirty' = TRUE
    /\ opCount' = opCount + 1
    /\ StringsUnchanged

\* renameDisc; lastOp keeps what the call found and the call before it.
RenameDisc(title) ==
    /\ opCount < MaxStringOps
    /\ LET renamed == renameDisc(tif, title)
           this == [err |-> renamed.err, title |-> title,
                    freeBefore |-> Len(StringFreelist(tif)),
                    titledBefore |-> getGroup(tif, 0).titleIndex # 0]
       IN  /\ tif' = renamed.tif
           /\ lastOp' = [op |-> "renameDisc", err |-> renamed.err, call |-> this,
                         previous |-> IF lastOp.op = "renameDisc" THEN <<lastOp.call>> ELSE <<>>]
    /\ dirty' = TRUE
    /\ opCount' = opCount + 1
    /\ StringsUnchanged

StringsNext ==
    \/ \E text \in StringTexts, type \in {TITLE, ARTIST} : AddString(text, type)
    \/ \E root \in StringSlots : RemoveString(root)
    \/ \E text \in StringTexts : RenameDisc(<<text>>)
    \/ RenameDisc(<<>>)

SpecStrings == StringsInit /\ [][StringsNext]_vars

(* ------------------------ specification of flush ----------------------- *)
\* flush() runs from one await to the next: pc is "new" when no flush is in
\* progress, else the await flush is suspended at. Mutators run in between.
FlushSteps == {"flushOpen", "flushSeek", "flushWrite", "flushClose"}

FlushUnchanged == UNCHANGED <<datanum, discId, session, provider, stream, reader, upload, cache>>

\* flush() that writes whether or not the image is dirty.
FlushBeginAlways ==
    /\ pc = "new"
    /\ opCount < MaxStoreOps
    /\ pc' = "flushOpen"
    /\ lastOp' = [op |-> "flush", step |-> "begin"]
    /\ opCount' = opCount + 1
    /\ UNCHANGED <<tif, dirty, files, log>>
    /\ FlushUnchanged

\* flush() up to its first await: returns at once when the image is clean,
\* else calls openTifFile('rw').
FlushBegin ==
    /\ pc = "new"
    /\ opCount < MaxStoreOps
    /\ pc' = IF dirty THEN "flushOpen" ELSE "new"
    /\ lastOp' = [op |-> "flush", step |-> IF dirty THEN "begin" ELSE "return"]
    /\ opCount' = opCount + 1
    /\ UNCHANGED <<tif, dirty, files, log>>
    /\ FlushUnchanged

\* openTifFile resolved: tif.seek(0) is called.
FlushOpen ==
    /\ pc = "flushOpen"
    /\ pc' = "flushSeek"
    /\ log' = Append(log, FileEvent("open", getDatanumDependentName("TRKIDX", datanum[1])))
    /\ lastOp' = [op |-> "flush", step |-> "open"]
    /\ UNCHANGED <<tif, dirty, files, opCount>>
    /\ FlushUnchanged

\* seek resolved: tif.write(this.tifData) is called; the bytes written are
\* those of the image at the call.
FlushSeek ==
    /\ pc = "flushSeek"
    /\ pc' = "flushWrite"
    /\ files' = Flushed(files, tif)
    /\ log' = Append(log, [kind |-> "fs", what |-> "write",
                           name |-> getDatanumDependentName("TRKIDX", datanum[1]), offset |-> 0])
    /\ lastOp' = [op |-> "flush", step |-> "seek"]
    /\ UNCHANGED <<tif, dirty, opCount>>
    /\ FlushUnchanged

\* write resolved: tif.close() is called.
FlushWrite ==
    /\ pc = "flushWrite"
    /\ pc' = "flushClose"
    /\ log' = Append(log, FileEvent("close", getDatanumDependentName("TRKIDX", datanum[1])))
    /\ lastOp' = [op |-> "flush", step |-> "write"]
    /\ UNCHANGED <<tif, dirty, files, opCount>>
    /\ FlushUnchanged

\* close resolved: this.dirty = false, flush returns.
FlushClose ==
    /\ pc = "flushClose"
    /\ pc' = "new"
    /\ dirty' = FALSE
    /\ lastOp' = [op |-> "flush", step |-> "return"]
    /\ UNCHANGED <<tif, files, log, opCount>>
    /\ FlushUnchanged

FlushNext ==
    \/ FlushBegin
    \/ FlushOpen
    \/ FlushSeek
    \/ FlushWrite
    \/ FlushClose
    \/ \E track \in SomeTracks : AddTrack(track)
    \/ \E slot \in TrackSlots \ {0} : RemoveTrack(slot)

SpecFlush == StoreInit /\ [][FlushNext]_vars

(* -------------- specification of uploads and deletions --------------- *)
\* The index sets deleteTracks is called with.
DeletedIndexSets == (SUBSET (0..(MaxInitialTracks - 1))) \ {{}}

TracksNext ==
    \/ opCount < MaxTrackOps /\ UploadMP3Track(ClusterBlocks, 1, <<>>, <<>>, <<>>)
    \/ opCount < MaxTrackOps /\ \E blockCount \in {0, ClusterBlocks} :
                                    UploadMacDependent(FALSE, <<"key", 1>>, <<"key", 2>>,
                                                       blockCount, <<>>, <<>>, <<>>)
    \/ opCount < MaxTrackOps /\ \E tracksToDelete \in DeletedIndexSets : DeleteTracks(tracksToDelete)

SpecTracks == DiscInit /\ [][TracksNext]_vars

(* ------------------- specification of the block stream ----------------- *)
\* The fragments a track's chain may hold: firstBlock <= lastBlock.
StreamFragments ==
    {f \in {[firstBlock |-> a, lastBlock |-> b, firstFrame |-> 1, lastFrame |-> 3,
              key |-> <<"key", a>>] : a \in 0..MaxStreamBlock, b \in 0..MaxStreamBlock} :
        f.firstBlock <= f.lastBlock}

RECURSIVE FragmentLists(_)
FragmentLists(n) ==
    IF n = 0 THEN {<<>>}
    ELSE FragmentLists(n - 1) \cup
         {Append(l, f) : l \in {x \in FragmentLists(n - 1) : Len(x) = n - 1}, f \in StreamFragments}

ReaderUnchanged ==
    UNCHANGED <<tif, dirty, datanum, discId, files, session, pc, log, opCount, provider, stream,
                upload, cache>>

\* new HiMDBlockStream(himd, atdata, fragments, framesPerBlock) on a file
\* just opened; reading fragments[0] of an empty list throws a TypeError.
OpenBlockStream(fragments, framesPerBlock) ==
    /\ reader.state = "none"
    /\ reader' = IF fragments = <<>>
                 THEN [state |-> "failed"]
                 ELSE [state |-> "open", fragments |-> fragments, framesPerBlock |-> framesPerBlock,
                       currentBlock |-> fragments[1].firstBlock, currentFragment |-> 0,
                       position |-> 0, out |-> <<>>]
    /\ lastOp' = [op |-> "openBlockStream",
                  err |-> IF fragments = <<>> THEN "TypeError" ELSE "ok"]
    /\ ReaderUnchanged

isMpeg(r) == r.framesPerBlock = 0

\* What read() returns at end of stream.
EndOfStream == [eof |-> TRUE]

\* read() that never seeks.
BlockStreamReadSequential(r) ==
    IF r.currentFragment = Len(r.fragments) THEN [r EXCEPT !.out = Append(@, EndOfStream)]
    ELSE LET currentFragment == r.fragments[r.currentFragment + 1]
             atLast == r.currentBlock = currentFragment.lastBlock
             result == [eof |-> FALSE, block |-> r.position, key |-> currentFragment.key]
         IN  [r EXCEPT !.position = r.position + 1,
                       !.out = Append(@, result),
                       !.currentFragment = IF atLast THEN @ + 1 ELSE @,
                       !.currentBlock =
                           IF ~atLast THEN @ + 1
                           ELSE IF r.currentFragment + 1 < Len(r.fragments)
                           THEN r.fragments[r.currentFragment + 2].firstBlock
                           ELSE @]

\* HiMDBlockStream.read(): the file is positioned at the fragment's first
\* block only, later blocks are read where the previous read ended; block is
\* the number of the ATDATA block the bytes returned come from.
BlockStreamRead(r) ==
    IF r.currentFragment = Len(r.fragments) THEN [r EXCEPT !.out = Append(@, EndOfStream)]
    ELSE LET currentFragment == r.fragments[r.currentFragment + 1]
             atFirst == r.currentBlock = currentFragment.firstBlock
             atLast == r.currentBlock = currentFragment.lastBlock
             position == IF atFirst THEN r.currentBlock ELSE r.position
             lastFrame == IF atLast
                          THEN (IF isMpeg(r) THEN currentFragment.lastFrame - 1
                                ELSE currentFragment.lastFrame)
                          ELSE (IF isMpeg(r) THEN <<"nFrames - 1 of block", position>>
                                ELSE r.framesPerBlock - 1)
             result == [eof |-> FALSE, block |-> position, key |-> currentFragment.key,
                        firstFrame |-> IF atFirst THEN currentFragment.firstFrame ELSE 0,
                        lastFrame |-> lastFrame]
         IN  [r EXCEPT !.position = position + 1,
                       !.out = Append(@, result),
                       !.currentFragment = IF atLast THEN @ + 1 ELSE @,
                       !.currentBlock =
                           IF ~atLast THEN @ + 1
                           ELSE IF r.currentFragment + 1 < Len(r.fragments)
                           THEN r.fragments[r.currentFragment + 2].firstBlock
                           ELSE @]

RECURSIVE FragmentBlocks(_)
\* The blocks firstBlock..lastBlock of each fragment, in fragment order.
FragmentBlocks(fragments) ==
    IF fragments = <<>> THEN <<>>
    ELSE [k \in 1..(Head(fragments).lastBlock - Head(fragments).firstBlock + 1) |->
              Head(fragments).firstBlock + k - 1] \o FragmentBlocks(Tail(fragments))

\* One call of read(); two calls are made past the end of the stream.
Read ==
    /\ reader.state = "open"
    /\ Len(reader.out) < Len(FragmentBlocks(reader.fragments)) + 2
    /\ reader' = BlockStreamRead(reader)
    /\ lastOp' = [op |-> "read", err |-> "ok"]
    /\ ReaderUnchanged

ReaderNext ==
    \/ \E fragments \in FragmentLists(MaxFragments), framesPerBlock \in {0, 2} :
           OpenBlockStream(fragments, framesPerBlock)
    \/ Read

ReaderInit == Loaded(0, FALSE, <<>>)

SpecReader == ReaderInit /\ [][ReaderNext]_vars

(* -------------------- specification of the MP3 upload ------------------ *)
HIMD_AUDIO_SIZE == 16320

HIMD_MP3_VAR_VERSION == 64
HIMD_MP3_VAR_LAYER == 32
HIMD_MP3_VAR_BITRATE == 16
HIMD_MP3_VAR_SRATE == 8
HIMD_MP3_VAR_CHMODE == 4
HIMD_MP3_VAR_PREEMPH == 2

\* getMP3EncryptionKey(himd, trackNumber) on the disc loaded: the four key
\* bytes, by the track number they are derived from.
getMP3EncryptionKey(trackNumber) == <<"mp3key", trackNumber>>

\* n & ~7
ClearLowBits(n) == (n \div 8) * 8

\* The audio bytes of a block are the frames packed into it and a mask: the
\* set of <<n, key>> such that bytes 0..n-1 are XORed with key repeated.
\* XORing the same range with the same key again restores the bytes.
XorBytes(mask, n, key) ==
    IF n = 0 THEN mask
    ELSE IF <<n, key>> \in mask THEN mask \ {<<n, key>>} ELSE mask \cup {<<n, key>>}

newBucket == [frames |-> <<>>, totalSize |-> 0, nFrames |-> 0]

\* appendToBucket(data): [bytesAdded, bucket]
appendToBucket(bucket, frame) ==
    IF bucket.totalSize + frame.len >= HIMD_AUDIO_SIZE - 1
    THEN [bytesAdded |-> IF bucket.totalSize = 0 THEN 0 ELSE -1, bucket |-> bucket]
    ELSE [bytesAdded |-> frame.len,
          bucket |-> [frames |-> Append(bucket.frames, frame.id),
                      totalSize |-> bucket.totalSize + frame.len,
                      nFrames |-> bucket.nFrames + 1]]

\* finalizeBlockInBucket that obfuscates all totalSize bytes
finalizeBlockInBucketWhole(u) ==
    [u EXCEPT !.blocks = Append(@, [nFrames |-> Uint16(u.bucket.nFrames),
                                    lendata |-> Uint16(u.bucket.totalSize),
                                    serialNumber |-> u.blockNumber,
                                    frames |-> u.bucket.frames,
                                    mask |-> XorBytes({}, u.bucket.totalSize, u.key)]),
              !.packed = Append(@, u.bucket),
              !.frameCount = u.bucket.nFrames]

\* finalizeBlockInBucket and serializeBlock: the block as written to ATDATA;
\* packed keeps the bucket as it was before the bytes were obfuscated.
finalizeBlockInBucket(u) ==
    [u EXCEPT !.blocks = Append(@, [nFrames |-> Uint16(u.bucket.nFrames),
                                    lendata |-> Uint16(u.bucket.totalSize),
                                    serialNumber |-> u.blockNumber,
                                    frames |-> u.bucket.frames,
                                    mask |-> XorBytes({}, ClearLowBits(u.bucket.totalSize), u.key)]),
              !.packed = Append(@, u.bucket),
              !.frameCount = u.bucket.nFrames]

\* The comparison of a frame header with the values recorded so far.
UpdateCodec(c, h) ==
    IF c.firstTime
    THEN [firstTime |-> FALSE, flags |-> c.flags, mpegVers |-> h.vers, mpegLayer |-> h.layer,
          mpegBitrate |-> h.bitrate, mpegSampleRate |-> h.srate, mpegChMode |-> h.chmode,
          mpegPreemph |-> h.preemph]
    ELSE [firstTime |-> FALSE,
          flags |-> BitOr(BitOr(BitOr(BitOr(BitOr(BitOr(c.flags,
                       IF h.vers # c.mpegVers THEN HIMD_MP3_VAR_VERSION ELSE 0),
                       IF h.layer # c.mpegLayer THEN HIMD_MP3_VAR_LAYER ELSE 0),
                       IF h.bitrate # c.mpegBitrate THEN HIMD_MP3_VAR_BITRATE ELSE 0),
                       IF h.srate # c.mpegSampleRate THEN HIMD_MP3_VAR_SRATE ELSE 0),
                       IF h.chmode # c.mpegChMode THEN HIMD_MP3_VAR_CHMODE ELSE 0),
                       IF h.preemph # c.mpegPreemph THEN HIMD_MP3_VAR_PREEMPH ELSE 0),
          mpegVers |-> Min(c.mpegVers, h.vers),
          mpegLayer |-> Min(c.mpegLayer, h.layer),
          mpegBitrate |-> Max(c.mpegBitrate, h.bitrate),
          mpegSampleRate |-> IF h.srate # c.mpegSampleRate /\ c.mpegSampleRate # 1
                             THEN (IF h.srate = 1 THEN h.srate ELSE Min(c.mpegSampleRate, h.srate))
                             ELSE c.mpegSampleRate,
          mpegChMode |-> c.mpegChMode,
          mpegPreemph |-> c.mpegPreemph]

\* mp3CodecInfo without the variability bits
Mp3CodecInfoNoFlags(c) ==
    <<128,
      BitOr(BitOr(c.mpegVers * 64, c.mpegLayer * 16), c.mpegBitrate) % 256,
      BitOr(BitOr(c.mpegSampleRate * 64, c.mpegChMode * 16), c.mpegPreemph * 4) % 256>>

\* mp3CodecInfo[0..2]
Mp3CodecInfo(c) ==
    <<c.flags,
      BitOr(BitOr(c.mpegVers * 64, c.mpegLayer * 16), c.mpegBitrate) % 256,
      BitOr(BitOr(c.mpegSampleRate * 64, c.mpegChMode * 16), c.mpegPreemph * 4) % 256>>

\* The frame headers of the inputs: MPEG-1 layer III at bitrate index 9 and
\* 44.1 kHz, and headers differing from it in one or two fields.
Header0 == [vers |-> 3, layer |-> 1, bitrate |-> 9, srate |-> 0, chmode |-> 0, preemph |-> 0]

Headers ==
    {Header0,
     [Header0 EXCEPT !.vers = 2], [Header0 EXCEPT !.layer = 2],
     [Header0 EXCEPT !.bitrate = 5], [Header0 EXCEPT !.bitrate = 11],
     [Header0 EXCEPT !.srate = 1], [Header0 EXCEPT !.srate = 2],
     [Header0 EXCEPT !.chmode = 1], [Header0 EXCEPT !.preemph = 1, !.vers = 2]}

\* count frames of len bytes each
Run(count, len) == [k \in 1..count |-> [len |-> len, hdr |-> Header0]]

\* Three, forty, 255 and 256 equal frames, frames of 16318 and 16319 bytes,
\* frames that fill a block to 16318 bytes, and up to three short frames of
\* any headers.
Mp3Inputs ==
    {Run(3, 417), Run(40, 417), Run(255, 52), Run(256, 52), Run(1, 16318), Run(1, 16319),
     Run(1, 417) \o Run(1, 16319) \o Run(1, 417),
     Run(1, 8000) \o Run(1, 8318) \o Run(1, 8000)}
    \cup {<<[len |-> 417, hdr |-> h1]>> : h1 \in Headers}
    \cup {<<[len |-> 417, hdr |-> h1], [len |-> 417, hdr |-> h2]>> : h1 \in Headers, h2 \in Headers}
    \cup {<<[len |-> 417, hdr |-> h1], [len |-> 417, hdr |-> h2], [len |-> 417, hdr |-> h3]>> :
             h1 \in Headers, h2 \in Headers, h3 \in Headers}

Mp3Init == Loaded(1, FALSE, <<>>)

Mp3Unchanged ==
    UNCHANGED <<tif, dirty, datanum, discId, files, session, pc, log, lastOp, opCount,
                provider, stream, reader, cache>>

\* uploadMP3Track(himd, writeStream, mp3Data, {}) up to the frame loop; frame
\* k of the input gets the id k.
UploadStart(input) ==
    /\ upload.state = "none"
    /\ upload' = [state |-> "packing",
                  input |-> [k \in 1..Len(input) |->
                                [id |-> k, len |-> input[k].len, hdr |-> input[k].hdr]],
                  next |-> 1,
                  key |-> getMP3EncryptionKey(getNextFreeTrackSlot(tif)),
                  codec |-> [firstTime |-> TRUE, flags |-> 128, mpegVers |-> 3, mpegLayer |-> 1,
                             mpegBitrate |-> 9, mpegSampleRate |-> 0, mpegChMode |-> 0,
                             mpegPreemph |-> 0],
                  bucket |-> newBucket, blocks |-> <<>>, packed |-> <<>>,
                  blockNumber |-> 0, frameCount |-> 0]
    /\ Mp3Unchanged

\* One iteration of the frame loop.
UploadFrame ==
    /\ upload.state = "packing"
    /\ upload.next <= Len(upload.input)
    /\ LET frame == upload.input[upload.next]
           added == appendToBucket(upload.bucket, frame)
           finalized == finalizeBlockInBucket(upload)
           again == appendToBucket(newBucket, frame)
           u == IF added.bytesAdded < 0
                THEN [finalized EXCEPT !.bucket = again.bucket, !.blockNumber = @ + 1]
                ELSE IF added.bytesAdded = 0 THEN [upload EXCEPT !.bucket = newBucket]
                ELSE [upload EXCEPT !.bucket = added.bucket]
       IN  upload' = [u EXCEPT !.codec = UpdateCodec(upload.codec, frame.hdr), !.next = @ + 1]
    /\ Mp3Unchanged

\* After the loop: the last bucket, the codec info, close(), the fragment,
\* the track and the flush.
UploadFinish ==
    /\ upload.state = "packing"
    /\ upload.next > Len(upload.input)
    /\ LET last == IF upload.bucket.nFrames # 0
                   THEN [finalizeBlockInBucket(upload) EXCEPT !.blockNumber = @ + 1]
                   ELSE upload
           atdata == getDatanumDependentName("ATDATA", datanum[1])
           r == uploadMP3Track(tif, files[atdata], Len(last.blocks), last.frameCount,
                               <<>>, <<>>, <<>>)
       IN  /\ tif' = r.tif
           /\ dirty' = FALSE
           /\ files' = [Flushed(files, r.tif) EXCEPT ![atdata] = @ + Len(last.blocks)]
           /\ upload' = [state |-> "stored", input |-> last.input, blocks |-> last.blocks,
                         packed |-> last.packed, blockNumber |-> last.blockNumber,
                         frameCount |-> last.frameCount, codecInfo |-> Mp3CodecInfo(last.codec),
                         slot |-> getNextFreeTrackSlot(tif), firstBlock |-> files[atdata],
                         fragment |-> addFragmentIndex(tif)]
           /\ lastOp' = [op |-> "uploadMP3Track", err |-> r.err,
                         slot |-> getNextFreeTrackSlot(tif)]
    /\ UNCHANGED <<datanum, discId, session, pc, log, opCount, provider, stream, reader, cache>>

\* openMP3Stream(trackNumber) on the slot of the track uploaded, when blocks
\* were written: openBlockStream(track.firstFragment, 0) and the key of the
\* track number.
OpenMP3Stream ==
    /\ upload.state = "stored"
    /\ upload.blocks # <<>>
    /\ reader.state = "none"
    /\ LET track == getTrack(tif, upload.slot)
           chain == FragmentChain(tif, track.firstFragment, NFrag)
           fragments == [k \in 1..Len(chain) |-> getFragment(tif, chain[k])]
       IN  reader' = [state |-> "open", fragments |-> fragments, framesPerBlock |-> 0,
                      currentBlock |-> fragments[1].firstBlock, currentFragment |-> 0,
                      position |-> 0, out |-> <<>>]
    /\ upload' = [upload EXCEPT !.state = "reading"] @@
                 [out |-> <<>>, readKey |-> getMP3EncryptionKey(upload.slot), err |-> "ok"]
    /\ UNCHANGED <<tif, dirty, datanum, discId, files, session, pc, log, lastOp, opCount,
                   provider, stream, cache>>

\* HiMDMP3Stream.readBlock()
Mp3ReadBlock ==
    /\ upload.state = "reading"
    /\ LET read == BlockStreamRead(reader)
           result == read.out[Len(read.out)]
           atLast == reader.currentBlock = reader.fragments[reader.currentFragment + 1].lastBlock
           block == upload.blocks[result.block - upload.firstBlock + 1]
           firstFrame == result.firstFrame
           lastFrame == IF atLast THEN result.lastFrame ELSE block.nFrames - 1
           dataFrames == block.nFrames
           dataBytes == block.lendata
           err == IF firstFrame > lastFrame THEN "LastFrame > FirstFrame"
                  ELSE IF dataBytes > HIMD_AUDIO_SIZE THEN "too much"
                  ELSE IF lastFrame >= dataFrames THEN "past number of frames"
                  ELSE "ok"
       IN  /\ reader' = read
           /\ upload' = IF result.eof THEN [upload EXCEPT !.state = "readDone"]
                        ELSE IF err # "ok" THEN [upload EXCEPT !.state = "readFailed", !.err = err]
                        ELSE [upload EXCEPT !.out = Append(@,
                                 [frames |-> block.frames,
                                  mask |-> XorBytes(block.mask, ClearLowBits(dataBytes), upload.readKey),
                                  framesCount |-> lastFrame - firstFrame + 1])]
    /\ UNCHANGED <<tif, dirty, datanum, discId, files, session, pc, log, lastOp, opCount,
                   provider, stream, cache>>

Mp3Next ==
    \/ \E input \in Mp3Inputs : UploadStart(input)
    \/ UploadFrame
    \/ UploadFinish
    \/ OpenMP3Stream
    \/ Mp3ReadBlock

SpecMp3 == Mp3Init /\ [][Mp3Next]_vars

(* ------------------- collecting a fragment chain ----------------------- *)
\* Track-index images as a disc may hold them: the image of one recorded
\* track with the nextFragment links of fragments 1 and 2 set to any slot.
ChainImages ==
    {[DiscWithTracks(1) EXCEPT !.fragments[1].nextFragment = b,
                               !.fragments[2].nextFragment = c] : b, c \in FragSlots}

ChainInit ==
    \E image \in ChainImages :
        /\ tif = image
        /\ dirty = FALSE
        /\ datanum = <<InitialDatanum>>
        /\ discId = <<DiscId>>
        /\ files = GenerationFiles(image, InitialDatanum)
        /\ session = NewSession(FALSE)
        /\ pc = "new"
        /\ log = <<>>
        /\ lastOp = [op |-> "init"]
        /\ opCount = 0
        /\ provider = NewProvider
        /\ stream = NewStream
        /\ reader = NewReader
        /\ upload = NewUpload
        /\ cache = NewCache

\* The walk of the model stops after this many hops, past every slot of the
\* table; the loop of the code has no counter.
MaxHops == NFrag + 1

\* openBlockStream(firstFragment, framesPerBlock): fragments = [],
\* fragmentNumber = firstFragment
StartCollect(firstFragment) ==
    /\ reader.state = "none"
    /\ reader' = [state |-> "collecting", fragmentNumber |-> firstFragment, fragments |-> <<>>]
    /\ lastOp' = [op |-> "openBlockStream", err |-> "running"]
    /\ ReaderUnchanged

\* One turn of while (fragmentNumber !== 0): push the fragment, follow its link.
CollectFragment ==
    /\ reader.state = "collecting"
    /\ reader.fragmentNumber # 0
    /\ Len(reader.fragments) < MaxHops
    /\ LET fragment == getFragment(tif, reader.fragmentNumber)
       IN  reader' = [reader EXCEPT !.fragments = Append(@, fragment),
                                    !.fragmentNumber = fragment.nextFragment]
    /\ UNCHANGED lastOp
    /\ ReaderUnchanged

\* The loop has ended: the stream is built over the collected fragments.
CollectDone ==
    /\ reader.state = "collecting"
    /\ reader.fragmentNumber = 0
    /\ reader' = IF reader.fragments = <<>>
                 THEN [state |-> "failed"]
                 ELSE [state |-> "open", fragments |-> reader.fragments, framesPerBlock |-> 0,
                       currentBlock |-> reader.fragments[1].firstBlock, currentFragment |-> 0,
                       position |-> 0, out |-> <<>>]
    /\ lastOp' = [op |-> "openBlockStream",
                  err |-> IF reader.fragments = <<>> THEN "TypeError" ELSE "ok"]
    /\ ReaderUnchanged

ChainNext ==
    \/ \E slot \in LiveSlots(tif) : StartCollect(getTrack(tif, slot).firstFragment)
    \/ CollectFragment
    \/ CollectDone

SpecChain == ChainInit /\ [][ChainNext]_vars

(* ------------------------- a disc that is full ------------------------- *)
\* One more fragment, of one cluster, at the head of the chain of a track.
ExtendTrack(t, slot) ==
    LET index == addFragmentIndex(t)
        t1 == addFragment(t, [ZeroFragment EXCEPT
                                 !.firstBlock = index * ClusterBlocks,
                                 !.lastBlock = index * ClusterBlocks + ClusterBlocks - 1,
                                 !.nextFragment = getTrack(t, slot).firstFragment])
    IN  writeTrack(t1, slot, [getTrack(t1, slot) EXCEPT !.firstFragment = index])

\* The tracks of DiscWithTracks(n), the first of them in so many fragments
\* that only freeFragments slots of the fragment table are left.
RECURSIVE FullImage(_, _)
FullImage(n, freeFragments) ==
    IF NFrag - 1 - n <= freeFragments THEN DiscWithTracks(n)
    ELSE ExtendTrack(FullImage(n, freeFragments + 1), 1)

\* Discs with at most two free track slots and two free fragment slots.
FullInit ==
    \E n \in (NTrack - 3)..(NTrack - 1), freeFragments \in 0..2 :
        /\ tif = FullImage(n, freeFragments)
        /\ dirty = FALSE
        /\ datanum = <<InitialDatanum>>
        /\ discId = <<DiscId>>
        /\ files = GenerationFiles(FullImage(n, freeFragments), InitialDatanum)
        /\ session = NewSession(FALSE)
        /\ pc = "new"
        /\ log = <<>>
        /\ lastOp = [op |-> "init"]
        /\ opCount = 0
        /\ provider = NewProvider
        /\ stream = NewStream
        /\ reader = NewReader
        /\ upload = NewUpload
        /\ cache = NewCache

FullNext ==
    \/ \E track \in SomeTracks : AddTrack(track)
    \/ \E fragment \in SomeFragments : AddFragment(fragment)

SpecFull == FullInit /\ [][FullNext]_vars

(* --------------------- the cached UMSC transport ----------------------- *)
FIRST_N_SECTORS_CACHED == 1000

\* The sectors the calls name: two cached ones and one past the cache.
LowSectors == {0, 1}
Sectors == LowSectors \cup {FIRST_N_SECTORS_CACHED}

MaxTransportCalls == 3

\* lowSectorsCache, every entry { dirty: false, data: null }
EmptyLowSectorsCache == [i \in LowSectors |-> [dirty |-> FALSE, data |-> <<>>]]

\* The transport after init(): the cache, the sectors of the device, the
\* queue of cacheMutex (its head holds the lock) and the calls made so far.
\* written[i] records the data of the last writeSectors(i) that called back.
NewTransport ==
    [state |-> "ready",
     lowSectorsCache |-> EmptyLowSectorsCache,
     device |-> [i \in Sectors |-> 0],
     mutex |-> <<>>,
     calls |-> <<>>,
     written |-> [i \in Sectors |-> 0],
     flushed |-> 0]

TransportInit ==
    /\ tif = DiscWithTracks(0)
    /\ dirty = FALSE
    /\ datanum = <<InitialDatanum>>
    /\ discId = <<DiscId>>
    /\ files = GenerationFiles(DiscWithTracks(0), InitialDatanum)
    /\ session = NewSession(TRUE)
    /\ pc = "new"
    /\ log = <<>>
    /\ lastOp = [op |-> "init"]
    /\ opCount = 0
    /\ provider = NewProvider
    /\ stream = NewStream
    /\ reader = NewReader
    /\ upload = NewUpload
    /\ cache = NewTransport

TransportUnchanged ==
    UNCHANGED <<tif, dirty, datanum, discId, files, session, pc, log, opCount, provider, stream,
                reader, upload>>

\* const release = await this.cacheMutex.acquire(): the caller joins the queue
MutexAcquire(c, id) == [c EXCEPT !.mutex = Append(@, id)]

\* release(): the lock goes to the next caller in the queue
MutexRelease(c) == [c EXCEPT !.mutex = Tail(@)]

HoldsMutex(c, id) == c.mutex # <<>> /\ Head(c.mutex) = id

\* lowSectorsCache[i].data = new Uint8Array([...data]); lowSectorsCache[i].dirty = true
CacheWriteClean(c, i, data) ==
    [c EXCEPT !.lowSectorsCache[i].data = <<data>>]

CacheWrite(c, i, data) ==
    [c EXCEPT !.lowSectorsCache[i].data = <<data>>, !.lowSectorsCache[i].dirty = TRUE]

\* The data of the writes to sector i that have not called back yet.
PendingWrites(c, i) ==
    {c.calls[k].data : k \in {j \in 1..Len(c.calls) :
        c.calls[j].kind = "write" /\ c.calls[j].sector = i /\ c.calls[j].pc # "done"}}

\* fsDriver.readSectors(i, dest, cb) up to its first await
StartReadSectors(i) ==
    /\ Len(cache.calls) < MaxTransportCalls
    /\ LET id == Len(cache.calls) + 1
           call == [kind |-> "read", sector |-> i, data |-> 0, pc |-> "acquire",
                    allowed |-> {cache.written[i]} \cup PendingWrites(cache, i)]
       IN  cache' = MutexAcquire([cache EXCEPT !.calls = Append(@, call)], id)
    /\ UNCHANGED lastOp
    /\ TransportUnchanged

\* fsDriver.writeSectors(i, data, cb) up to its first await; the data of the
\* call is its number, so that no two writes carry the same data.
StartWriteSectors(i) ==
    /\ Len(cache.calls) < MaxTransportCalls
    /\ LET id == Len(cache.calls) + 1
           call == [kind |-> "write", sector |-> i, data |-> id,
                    pc |-> IF i >= FIRST_N_SECTORS_CACHED THEN "device" ELSE "acquire",
                    allowed |-> {}]
           noted == [k \in 1..Len(cache.calls) |->
                        IF /\ cache.calls[k].kind = "read"
                           /\ cache.calls[k].sector = i
                           /\ cache.calls[k].pc # "done"
                        THEN [cache.calls[k] EXCEPT !.allowed = @ \cup {id}]
                        ELSE cache.calls[k]]
           c1 == [cache EXCEPT !.calls = Append(noted, call)]
       IN  cache' = IF i >= FIRST_N_SECTORS_CACHED THEN c1 ELSE MutexAcquire(c1, id)
    /\ UNCHANGED lastOp
    /\ TransportUnchanged

\* flushLowSectors() up to its first await
StartFlushLowSectors ==
    /\ Len(cache.calls) < MaxTransportCalls
    /\ LET id == Len(cache.calls) + 1
           call == [kind |-> "flush", sector |-> 0, data |-> 0, pc |-> "acquire", allowed |-> {}]
       IN  cache' = MutexAcquire([cache EXCEPT !.calls = Append(@, call)], id)
    /\ UNCHANGED lastOp
    /\ TransportUnchanged

ReadDone(call, result) ==
    [op |-> "readSectors", sector |-> call.sector, result |-> result, allowed |-> call.allowed]

\* readSectors with the lock: a sector past the cache is left to the device,
\* cached data is copied to dest, anything else is read from the device first.
ReadAcquired(id) ==
    /\ id \in 1..Len(cache.calls)
    /\ cache.calls[id].kind = "read"
    /\ cache.calls[id].pc = "acquire"
    /\ HoldsMutex(cache, id)
    /\ LET call == cache.calls[id]
           i == call.sector
       IN  IF i >= FIRST_N_SECTORS_CACHED
           THEN /\ cache' = MutexRelease([cache EXCEPT !.calls[id].pc = "device"])
                /\ UNCHANGED lastOp
           ELSE IF cache.lowSectorsCache[i].data # <<>>
           THEN /\ cache' = MutexRelease([cache EXCEPT !.calls[id].pc = "done"])
                /\ lastOp' = ReadDone(call, cache.lowSectorsCache[i].data[1])
           ELSE /\ cache' = [cache EXCEPT !.calls[id].pc = "deviceRead"]
                /\ UNCHANGED lastOp
    /\ TransportUnchanged

\* fsUncachedDriver.readSectors calls back; a read made for the cache keeps a
\* copy of dest in the entry and releases the lock.
ReadDevice(id) ==
    /\ id \in 1..Len(cache.calls)
    /\ cache.calls[id].kind = "read"
    /\ cache.calls[id].pc \in {"device", "deviceRead"}
    /\ LET call == cache.calls[id]
           i == call.sector
           dest == cache.device[i]
           c1 == [cache EXCEPT !.calls[id].pc = "done"]
       IN  /\ cache' = IF call.pc = "device" THEN c1
                       ELSE MutexRelease([c1 EXCEPT !.lowSectorsCache[i].data = <<dest>>])
           /\ lastOp' = ReadDone(call, dest)
    /\ TransportUnchanged

\* writeSectors of a cached sector with the lock
WriteAcquired(id) ==
    /\ id \in 1..Len(cache.calls)
    /\ cache.calls[id].kind = "write"
    /\ cache.calls[id].pc = "acquire"
    /\ HoldsMutex(cache, id)
    /\ LET call == cache.calls[id]
           c1 == CacheWrite(cache, call.sector, call.data)
       IN  /\ cache' = MutexRelease([c1 EXCEPT !.calls[id].pc = "done",
                                               !.written[call.sector] = call.data])
           /\ lastOp' = [op |-> "writeSectors", sector |-> call.sector, data |-> call.data]
    /\ TransportUnchanged

\* fsUncachedDriver.writeSectors of a sector past the cache calls back
WriteDevice(id) ==
    /\ id \in 1..Len(cache.calls)
    /\ cache.calls[id].kind = "write"
    /\ cache.calls[id].pc = "device"
    /\ LET call == cache.calls[id]
       IN  /\ cache' = [cache EXCEPT !.calls[id].pc = "done",
                                     !.device[call.sector] = call.data,
                                     !.written[call.sector] = call.data]
           /\ lastOp' = [op |-> "writeSectors", sector |-> call.sector, data |-> call.data]
    /\ TransportUnchanged

\* flushLowSectors with the lock: i = 0
FlushAcquired(id) ==
    /\ id \in 1..Len(cache.calls)
    /\ cache.calls[id].kind = "flush"
    /\ cache.calls[id].pc = "acquire"
    /\ HoldsMutex(cache, id)
    /\ cache' = [cache EXCEPT !.calls[id].pc = "loop"]
    /\ UNCHANGED lastOp
    /\ TransportUnchanged

\* One entry of the loop: a dirty entry with data is written to the device.
FlushEntry(id) ==
    /\ id \in 1..Len(cache.calls)
    /\ cache.calls[id].kind = "flush"
    /\ cache.calls[id].pc = "loop"
    /\ cache.calls[id].sector \in LowSectors
    /\ LET i == cache.calls[id].sector
           entry == cache.lowSectorsCache[i]
           c1 == [cache EXCEPT !.calls[id].sector = i + 1]
       IN  cache' = IF entry.dirty /\ entry.data # <<>>
                    THEN [c1 EXCEPT !.device[i] = entry.data[1]]
                    ELSE c1
    /\ UNCHANGED lastOp
    /\ TransportUnchanged

\* After the loop the cache is replaced by an empty one and the lock released.
FlushDone(id) ==
    /\ id \in 1..Len(cache.calls)
    /\ cache.calls[id].kind = "flush"
    /\ cache.calls[id].pc = "loop"
    /\ cache.calls[id].sector \notin LowSectors
    /\ cache' = MutexRelease([cache EXCEPT !.calls[id].pc = "done",
                                           !.lowSectorsCache = EmptyLowSectorsCache,
                                           !.flushed = @ + 1])
    /\ lastOp' = [op |-> "flushLowSectors"]
    /\ TransportUnchanged

TransportNext ==
    \/ \E i \in Sectors : StartReadSectors(i)
    \/ \E i \in Sectors : StartWriteSectors(i)
    \/ StartFlushLowSectors
    \/ \E id \in 1..MaxTransportCalls : ReadAcquired(id)
    \/ \E id \in 1..MaxTransportCalls : ReadDevice(id)
    \/ \E id \in 1..MaxTransportCalls : WriteAcquired(id)
    \/ \E id \in 1..MaxTransportCalls : WriteDevice(id)
    \/ \E id \in 1..MaxTransportCalls : FlushAcquired(id)
    \/ \E id \in 1..MaxTransportCalls : FlushEntry(id)
    \/ \E id \in 1..MaxTransportCalls : FlushDone(id)

SpecTransport == TransportInit /\ [][TransportNext]_vars

(* ----------------------------- properties ------------------------------ *)
\* C1: for every live track slot s, after removeTrack(s) the track freelist
\* read from slot 0 is s followed by the freelist as it was before the call:
\* slot 0's trackNumber is s, slot s's trackNumber holds the previous head,
\* and every other byte of slot s is zero.
C1_RemoveTrackPrependsSlot ==
    [][lastOp'.op = "removeTrack" =>
         LET s == lastOp'.slot
         IN  /\ getTrack(tif', 0).trackNumber = s
             /\ getTrack(tif', s).trackNumber = getTrack(tif, 0).trackNumber
             /\ [getTrack(tif', s) EXCEPT !.trackNumber = 0] = ZeroTrack
             /\ TrackFreelist(tif') = <<s>> \o TrackFreelist(tif)]_vars


AtdataGenerations == {name[2] : name \in {n \in DOMAIN files : n[1] = "ATDATA"}}

\* C5: when /HMDHIFI holds several atdataNN.hma files, loading selects the
\* highest NN as the current generation, whatever the order of the listing;
\* when it holds none, loading fails with the track-index-not-found error.
C5_LoadSelectsHighestGeneration ==
    lastOp.op = "findDatanum" =>
        IF AtdataGenerations = {}
        THEN pc = "failed" /\ lastOp.err = "Cannot find the track index file"
        ELSE datanum = <<SetMax(AtdataGenerations)>>


RenameEvents == {i \in DOMAIN log : log[i].what = "rename"}

\* C4: whenever a secure-session operation has failed, no file of /HMDHIFI
\* has been renamed and the handle's current generation is the one loaded.
C4_FailureLeavesGenerationLive ==
    pc = "failed" => (RenameEvents = {} /\ datanum = <<InitialDatanum>>)

\* C6: finalizeSession of a session created without a driver goes through,
\* with the generation and the disc id it writes both defined.
C6_DriverlessSessionFinalizes ==
    (~session.hasDriver /\ lastOp.op = "finalizeSession") =>
        /\ lastOp.err = "ok"
        /\ session.currentGeneration # <<>>
        /\ session.discId # <<>>

SignedSlots(image) ==
    {s \in {trackIndexToTrackSlot(image, i) : i \in 0..(getTrackCount(image) - 1)} :
        getTrack(image, s).codec = "AT3"}

\* C9: after finalizeSession, for every slot s holding a track uploaded as
\* MAC-dependent audio, entry s-1 of the MAC table written to MCLIST equals
\* the mac stored in slot s and equals createTrackMac(trackKey, bytes
\* 0x28..0x50 of the stored slot), the stored key being encryptTrackKey(trackKey).
C9_MacTableMatchesStoredTrack ==
    pc = "finalized" =>
        LET image == files[TrkidxName(datanum[1])]
            macs == files[MclistName(datanum[1])].macs
        IN  \A s \in SignedSlots(image) :
                LET track == getTrack(image, s)
                    trackKey == createTrackKey(track.ekbNumber, track.key)
                IN  /\ (s - 1) \in DOMAIN macs
                    /\ macs[s - 1] = track.mac
                    /\ track.mac = createTrackMac(trackKey, SerializedEntryTail(track))
                    /\ track.key = encryptTrackKey(trackKey)

C9_SignedTrackFinalized ==
    /\ pc = "finalized"
    /\ SignedSlots(files[TrkidxName(datanum[1])]) # {}

\* The place of an event in the order stated for finalizeSession
FinalizeRank(event) ==
    CASE event.what = "calculateNewICV" -> 1
      [] event.what = "rename" -> 2
      [] event.what = "open" -> 3
      [] event.what = "write" -> (CASE event.offset = 32 -> 4
                                    [] event.offset = 64 -> 5
                                    [] event.offset = 112 -> 6)
      [] event.what = "writeICV" -> 7
      [] OTHER -> 0

EventsOf(what) == {i \in DOMAIN log : log[i].what = what}

\* C10: finalizeSession computes the ICV from the in-memory MAC table, then
\* renames the generation files, then writes generation, disc id and MAC
\* table (offsets 0x20, 0x40, 0x70) into the MCLIST of the new generation,
\* and last, only with a driver, sends header, ICV and
\* createIcvMac(header|icv, sessionKey) with writeICV.
C10_FinalizeStepOrder ==
    LET newDataNum == JsRem(session.currentGeneration[1], GenerationModulus)
        head == <<session.currentGeneration[1], EkbNumber, session.discId[1]>>
    IN  /\ \A i, j \in DOMAIN log : i < j => FinalizeRank(log[i]) <= FinalizeRank(log[j])
        /\ \A i \in EventsOf("calculateNewICV") :
              /\ log[i].macs = session.allMacs[1]
              /\ session.currentIcv[1] = <<retailMac(head, session.headKey[1]),
                                           retailMac(log[i].macs, session.bodyKey[1])>>
        /\ \A i \in EventsOf("write") : log[i].name = MclistName(newDataNum)
        /\ \A i \in EventsOf("writeICV") :
              /\ session.hasDriver
              /\ log[i].header = [flag |-> 32, generation |-> session.currentGeneration[1]]
              /\ log[i].icv = session.currentIcv[1]
              /\ log[i].mac = createIcvMac(<<log[i].header, log[i].icv>>, session.sessionKey[1])
        /\ pc = "finalized" =>
              /\ Cardinality(EventsOf("calculateNewICV")) = 1
              /\ Cardinality(EventsOf("rename")) >= 3
              /\ {log[i].offset : i \in EventsOf("write")} = {32, 64, 112}
              /\ session.hasDriver <=> EventsOf("writeICV") # {}
              /\ datanum = <<newDataNum>>
              /\ files[MclistName(newDataNum)].generation = session.currentGeneration[1]
              /\ files[MclistName(newDataNum)].discId = session.discId[1]
              /\ files[MclistName(newDataNum)].macs = session.allMacs[1]

C10_FinalizedWithDriver ==
    /\ pc = "finalized"
    /\ session.hasDriver
    /\ opCount > 0
    /\ EventsOf("writeICV") # {}

MacUploads == {"uploadMacDependent", "uploadStreamingMacDependent"}

\* C2: a successful uploadMacDependent or uploadStreamingMacDependent takes
\* exactly one slot off the fragment freelist, and that slot is the
\* firstFragment stored for the new track.
C2_UploadTakesOneFragment ==
    [][(lastOp'.op \in MacUploads /\ lastOp'.err = "ok" /\ opCount' = opCount + 1) =>
         /\ FragmentFreelist(tif) # <<>>
         /\ FragmentFreelist(tif') = Tail(FragmentFreelist(tif))
         /\ getTrack(tif', lastOp'.slot).firstFragment = Head(FragmentFreelist(tif))]_vars

RECURSIVE FreedBefore(_, _)
FreedBefore(regions, firstBlock) ==
    IF regions = <<>> THEN 0
    ELSE (IF regions[1].firstBlock < firstBlock THEN regions[1].length ELSE 0)
            + FreedBefore(Tail(regions), firstBlock)

SurvivingFragments(t) ==
    UNION {{FragmentChain(t, getTrack(t, trackIndexToTrackSlot(t, i)).firstFragment, NFrag)[k] :
                k \in 1..Len(FragmentChain(t, getTrack(t, trackIndexToTrackSlot(t, i)).firstFragment, NFrag))} :
           i \in 0..(getTrackCount(t) - 1)}

\* C3: after deleteTracks every fragment of every surviving track has its
\* firstBlock and lastBlock lowered by the total length of the freed regions
\* that started before it.
C3_SurvivorsKeepTheirBlocks ==
    [][(lastOp'.op = "deleteTracks" /\ lastOp'.err = "ok" /\ opCount' = opCount + 1) =>
         \A f \in SurvivingFragments(tif') :
             LET old == getFragment(tif, f)
                 new == getFragment(tif', f)
                 freed == FreedBefore(lastOp'.blocksToFree, old.firstBlock)
             IN  /\ new.firstBlock = old.firstBlock - freed
                 /\ new.lastBlock = old.lastBlock - freed]_vars

LiveGroups == 1..getGroupCount(tif)

\* C7: every live group satisfies 0 <= startTrack < endTrack <= trackCount
\* and no two live groups overlap.
C7_GroupsCoverExistingTracks ==
    /\ \A g \in LiveGroups :
          /\ 0 <= getGroup(tif, g).startTrackIndex
          /\ getGroup(tif, g).startTrackIndex < getGroup(tif, g).endTrackIndex
          /\ getGroup(tif, g).endTrackIndex <= getTrackCount(tif)
    /\ \A g, h \in LiveGroups :
          g # h => \/ getGroup(tif, g).endTrackIndex <= getGroup(tif, h).startTrackIndex
                   \/ getGroup(tif, h).endTrackIndex <= getGroup(tif, g).startTrackIndex

\* C8: every slot listed at ordering positions 0..trackCount-1 holds a live
\* track: its trackNumber is its slot index and its firstFragment is not 0.
C8_ListedSlotsAreLive ==
    \A i \in 0..(getTrackCount(tif) - 1) :
        LET slot == trackIndexToTrackSlot(tif, i)
        IN  /\ getTrack(tif, slot).trackNumber = slot
            /\ getTrack(tif, slot).firstFragment # 0

AuthCalls ==
    <<"writeHostLeafID", "getAuthenticationStage2Info", "writeAuthenticationStage3Info", "readICV">>

\* C11: with a driver, once performAuthentication has succeeded the log
\* starts with one call each of writeHostLeafID (0x30),
\* getAuthenticationStage2Info (0x31), writeAuthenticationStage3Info (0x32)
\* and readICV (0x33), in this order, then the read of MCLIST; none of them
\* is issued again, and MCLIST is never read before readICV.
C11_AuthenticationCallOrder ==
    /\ (session.hasDriver /\ session.allMacs # <<>>) =>
          /\ Len(log) >= 5
          /\ \A k \in 1..4 : /\ log[k].kind = "dev"
                             /\ log[k].what = AuthCalls[k]
                             /\ DrmOpcode(log[k].what) = 47 + k
          /\ log[5].what = "read" /\ log[5].name = MclistName(InitialDatanum)
          /\ \A k \in DOMAIN log :
                k > 5 => log[k].what \notin {AuthCalls[i] : i \in 1..4} \cup {"read"}
    /\ session.hasDriver =>
          \A i \in EventsOf("read") : \E j \in EventsOf("readICV") : j < i

C11_AuthenticatedWithDriver ==
    /\ pc = "authenticated"
    /\ session.hasDriver
    /\ lastOp.op = "loadMaclist"

\* C12: when the MAC the device sent in stage 2 differs from
\* retailMac(discId|hostNonce|deviceNonce, MAIN_KEY), performAuthentication
\* has failed with no stage-3 write, no readICV and no MCLIST read issued,
\* and session key, generation and MAC table are unset.
C12_DeviceMacMismatchAborts ==
    (/\ lastOp.op = "getAuthenticationStage2Info"
     /\ lastOp.err # "I/O error"
     /\ lastOp.mac # retailMac(<<session.discId[1], session.hostNonce, session.deviceNonce[1]>>,
                               MAIN_KEY)) =>
        /\ pc = "failed"
        /\ lastOp.err = "Device MAC doesn't match!"
        /\ EventsOf("writeAuthenticationStage3Info") = {}
        /\ EventsOf("readICV") = {}
        /\ EventsOf("read") = {}
        /\ session.sessionKey = <<>>
        /\ session.currentGeneration = <<>>
        /\ session.allMacs = <<>>

C12_DeviceMacRejected ==
    /\ pc = "failed"
    /\ lastOp.op = "getAuthenticationStage2Info"
    /\ lastOp.err = "Device MAC doesn't match!"
    /\ lastOp.mac = ForgedMac

\* C13: when the icvMac returned by readICV differs from
\* createIcvMac(header|icv, sessionKey) over the header and ICV as received,
\* performAuthentication has failed with the ICV-MAC error (and so never
\* loads the maclist).
C13_IcvMacMismatchAborts ==
    (/\ lastOp.op = "readICV"
     /\ lastOp.err # "I/O error"
     /\ lastOp.icvMac # createIcvMac(<<lastOp.header, lastOp.icv>>, session.sessionKey[1])) =>
        /\ pc = "failed"
        /\ lastOp.err = "ICV MACs do not match!"

\* The reply the worker computes for the request of a call.
OwnReply(call) ==
    IF call.action = "decrypt" THEN decryptBlock(call.data) ELSE encryptBlock(call.data)

\* C14: a call made on the worker-backed CryptoProvider while an earlier call
\* still waits for its reply is rejected with the busy error and posts no
\* message to the worker; the earlier call stays as it was, and every call
\* that resolves does so with the worker's reply to its own request.
C14_BusyCallRejected ==
    /\ [][(Len(provider'.calls) = Len(provider.calls) + 1 /\ provider.currentWaiting # <<>>) =>
            /\ provider'.calls[Len(provider'.calls)].state = "rejected"
            /\ provider'.calls[Len(provider'.calls)].result = <<BusyError>>
            /\ provider'.toWorker = provider.toWorker
            /\ provider'.toMain = provider.toMain
            /\ provider'.currentWaiting = provider.currentWaiting
            /\ SubSeq(provider'.calls, 1, Len(provider.calls)) = provider.calls]_vars
    /\ [](\A k \in DOMAIN provider.calls :
             provider.calls[k].state = "resolved" =>
                 provider.calls[k].result = <<OwnReply(provider.calls[k])>>)

\* A call resolved after the call made right behind it was rejected.
C14_ResolvedAfterRejection ==
    \E k \in DOMAIN provider.calls :
        /\ k + 1 \in DOMAIN provider.calls
        /\ provider.calls[k].state = "resolved"
        /\ provider.calls[k + 1].state = "rejected"

\* Blocks the worker produced that the consumer has not taken yet.
UntakenBlocks ==
    {k \in DOMAIN stream.chunks :
        stream.chunks[k][1] = "resolved" /\ stream.chunks[k][2] # NullMessage}

\* C15: in the streaming CryptoBlockProvider the number of encrypted blocks
\* produced by the worker and not yet taken by the consumer never exceeds one.
C15_AtMostOneBlockAhead == Cardinality(UntakenBlocks) <= 1

\* The file an iteration of advanceGeneration is about, by the step it runs at.
AdvancedFile ==
    CASE pc = "advanceATDATA" -> "ATDATA"
      [] pc = "advanceMCLIST" -> "MCLIST"
      [] pc = "advanceTRKIDX" -> "TRKIDX"
      [] OTHER -> "none"

\* C16: advanceGeneration(g) handles ATDATA, MCLIST and TRKIDX in that order;
\* for each it first moves an existing target file <name><g % 16>.HMA to the
\* .HJS name of the smallest number not in use and only then renames the
\* current-generation file to the target name, touching no other file; when
\* it returns the handle's generation is g % 16.
C16_AdvanceGenerationRenames ==
    [][(lastOp'.op = "advanceGeneration" /\ lastOp'.err = "ok") =>
         LET e == AdvancedFile
             g == session.currentGeneration[1]
             target == <<e, g % GenerationModulus>>
             current == <<e, datanum[1]>>
             hjs == {n \in 0..3 : <<"HJS", n>> \notin DOMAIN files}
             first == <<"HJS", CHOOSE n \in hjs : \A m \in hjs : n <= m>>
             renames == SubSeq(log', Len(log) + 1, Len(log'))
         IN  /\ e # "none"
             /\ pc' = CASE e = "ATDATA" -> "advanceMCLIST"
                         [] e = "MCLIST" -> "advanceTRKIDX"
                         [] e = "TRKIDX" -> "openMaclist"
             /\ files'[target] = files[current]
             /\ current \notin DOMAIN files'
             /\ IF target \in DOMAIN files
                THEN /\ DOMAIN files' = (DOMAIN files \ {current}) \cup {first}
                     /\ files'[first] = files[target]
                     /\ Len(renames) = 2
                     /\ renames[1].what = "rename" /\ renames[1].name = target
                     /\ renames[2].what = "rename" /\ renames[2].name = current
                ELSE /\ DOMAIN files' = (DOMAIN files \ {current}) \cup {target}
                     /\ Len(renames) = 1
                     /\ renames[1].what = "rename" /\ renames[1].name = current
             /\ \A name \in DOMAIN files \ {current, target} : files'[name] = files[name]
             /\ datanum' = IF e = "TRKIDX" THEN <<g % GenerationModulus>> ELSE datanum]_vars

\* advanceGeneration returned after moving three stale files out of the way
\* on a disc that already held 00000000.HJS.
C16_AdvancedOverStaleFiles ==
    /\ lastOp.op = "advanceGeneration"
    /\ lastOp.err = "ok"
    /\ pc = "openMaclist"
    /\ datanum = <<InitialDatanum + 1>>
    /\ {<<"HJS", n>> : n \in 0..3} \subseteq DOMAIN files

\* The number of 14-byte chunks an encoding of len bytes fills.
ChunksFor(len) ==
    CHOOSE k \in 0..len : k * StringChunkLen >= len /\ (k - 1) * StringChunkLen < len

\* The string chunks other than chunk 0 and those listed are the same in the
\* next state.
OtherChunksKept(chain) ==
    \A index \in StringSlots \ ({0} \cup {chain[j] : j \in DOMAIN chain}) :
        getStringChunk(tif', index) = getStringChunk(tif, index)

\* C17: a successful addString(s, type) of an encoding L bytes long takes
\* exactly ceil(L/14) chunks from the head of the string freelist in freelist
\* order, links them as one chain (first chunk of the given type, the others
\* CONTINUATION, last link 0), leaves the freelist head at the first chunk not
\* taken, and returns the index of the first chunk.
C17_AddStringTakesHeadChunks ==
    [][(lastOp'.op = "addString" /\ lastOp'.err = "ok") =>
         LET free == StringFreelist(tif)
             k == ChunksFor(lastOp'.text.len)
             taken == SubSeq(free, 1, k)
         IN  /\ k <= Len(free)
             /\ lastOp'.index = free[1]
             /\ \A j \in 1..k :
                    /\ getStringChunk(tif', taken[j]).type =
                           (IF j = 1 THEN lastOp'.type ELSE CONTINUATION)
                    /\ getStringChunk(tif', taken[j]).link = (IF j = k THEN 0 ELSE taken[j + 1])
             /\ StringChain(tif', lastOp'.index, NString) = taken
             /\ getStringChunk(tif', 0).link = (IF k < Len(free) THEN free[k + 1] ELSE 0)
             /\ StringFreelist(tif') = SubSeq(free, k + 1, Len(free))
             /\ OtherChunksKept(taken)]_vars

\* A string of three chunks was stored.
C17_StoredThreeChunks ==
    /\ lastOp.op = "addString"
    /\ lastOp.err = "ok"
    /\ lastOp.text.len = 2 * StringChunkLen + 1
    /\ Len(StringChain(tif, lastOp.index, NString)) = 3

\* C18: when the string freelist holds fewer free chunks than the string
\* needs, addString fails with the not-enough-string-slots error and no chunk
\* and no freelist link has changed; when it holds exactly as many, addString
\* succeeds.
C18_NotEnoughStringSlots ==
    [][lastOp'.op = "addString" =>
         LET free == Len(StringFreelist(tif))
             needed == ChunksFor(lastOp'.text.len)
         IN  /\ free < needed =>
                    /\ lastOp'.err = "Not enough free string slots"
                    /\ tif'.strings = tif.strings
             /\ free = needed => lastOp'.err = "ok"]_vars

\* addString was refused for want of one chunk.
C18_RefusedForOneChunk ==
    /\ lastOp.op = "addString"
    /\ lastOp.err = "Not enough free string slots"
    /\ Len(StringFreelist(tif)) + 1 = ChunksFor(lastOp.text.len)

\* removeString(root) on a chain of k chunks sets all k chunks to UNUSED with
\* zeroed content and makes the freelist that chain, in chain order, followed
\* by the previous freelist; chunks outside the chain and chunk 0 are kept.
RemoveStringSplicesChain ==
    [][lastOp'.op = "removeString" =>
         LET chain == StringChain(tif, lastOp'.root, NString)
         IN  /\ \A j \in DOMAIN chain :
                    /\ getStringChunk(tif', chain[j]).type = UNUSED
                    /\ getStringChunk(tif', chain[j]).content = Zero
             /\ StringFreelist(tif') = chain \o StringFreelist(tif)
             /\ Len(StringFreelist(tif')) = Len(StringFreelist(tif)) + Len(chain)
             /\ OtherChunksKept(chain)]_vars

\* The state after a successful renameDisc(null) that follows a successful
\* renameDisc(title).
TitleSetThenCleared ==
    /\ lastOp.op = "renameDisc"
    /\ lastOp.err = "ok"
    /\ lastOp.call.title = <<>>
    /\ lastOp.previous # <<>>
    /\ lastOp.previous[1].title # <<>>
    /\ lastOp.previous[1].err = "ok"

\* C19 as stated: removeString splices the chain onto the freelist head, and
\* renameDisc(title) followed by renameDisc(null) restores the freelist length
\* and leaves group 0 with titleIndex 0.
C19_RenameDiscRestoresFreelist ==
    /\ RemoveStringSplicesChain
    /\ [](TitleSetThenCleared =>
             /\ Len(StringFreelist(tif)) = lastOp.previous[1].freeBefore
             /\ getGroup(tif, 0).titleIndex = 0)

\* C19, amended: removeString splices the chain onto the freelist head, and
\* renameDisc(title) followed by renameDisc(null) leaves group 0 with
\* titleIndex 0 and, on a disc that had no title before the first call,
\* restores the freelist length.
C19_RenameUntitledDiscRestoresFreelist ==
    /\ RemoveStringSplicesChain
    /\ [](TitleSetThenCleared =>
             /\ ~lastOp.previous[1].titledBefore =>
                    Len(StringFreelist(tif)) = lastOp.previous[1].freeBefore
             /\ getGroup(tif, 0).titleIndex = 0)

\* An untitled disc was given a title of two chunks and the title cleared.
C19_TwoChunkTitleCleared ==
    /\ TitleSetThenCleared
    /\ ~lastOp.previous[1].titledBefore
    /\ lastOp.previous[1].title[1].len = StringChunkLen + 1

\* C20: with a non-empty track freelist, addTrack(t) stores t in the slot
\* getNextFreeTrackSlot() reported just before the call, with trackNumber
\* equal to that slot, returns that slot, and sets slot 0's trackNumber to the
\* popped slot's former successor; no other track slot changes.
C20_AddTrackPopsHead ==
    [][(lastOp'.op = "addTrack" /\ getNextFreeTrackSlot(tif) # 0) =>
         LET slot == getNextFreeTrackSlot(tif)
         IN  /\ lastOp'.slot = slot
             /\ getTrack(tif', slot) = [lastOp'.track EXCEPT !.trackNumber = slot]
             /\ getTrack(tif', 0).trackNumber = getTrack(tif, slot).trackNumber
             /\ \A other \in TrackSlots \ {0, slot} :
                    getTrack(tif', other) = getTrack(tif, other)]_vars

\* Two tracks were added one after the other.
C20_TrackAdded ==
    /\ lastOp.op = "addTrack"
    /\ lastOp.slot # 0
    /\ opCount >= 2
    /\ getTrack(tif, lastOp.slot).firstFragment = lastOp.track.firstFragment
    /\ getTrack(tif, lastOp.slot).trackNumber = lastOp.slot

TrkidxFile == getDatanumDependentName("TRKIDX", datanum[1])

\* C21: flush() writes the in-memory image to TRKIDX, from offset 0, if and
\* only if the dirty flag is set, and the flag is clear when it returns: a
\* flush of a clean image returns at once with no file operation, a flush of
\* a dirty image goes on to the one write, and TRKIDX changes in no other way.
C21_FlushWritesIffDirty ==
    [][/\ (pc = "new" /\ lastOp'.op = "flush") =>
             (IF dirty THEN pc' = "flushOpen" /\ files' = files
              ELSE pc' = "new" /\ ~dirty' /\ files' = files /\ log' = log)
       /\ files' # files =>
             /\ pc = "flushSeek"
             /\ files' = [files EXCEPT ![TrkidxFile] = tif]
             /\ log'[Len(log')].what = "write"
             /\ log'[Len(log')].name = TrkidxFile
             /\ log'[Len(log')].offset = 0
       /\ (pc = "flushOpen" /\ pc' # pc) => (pc' = "flushSeek")
       /\ (pc = "flushClose" /\ pc' # pc) => (pc' = "new" /\ ~dirty')]_vars

\* A disc was loaded and flushed with no mutation in between: flush has
\* returned, nothing was written.
C21_CleanFlushReturned ==
    /\ lastOp = [op |-> "flush", step |-> "return"]
    /\ opCount = 1
    /\ log = <<>>
    /\ files[TrkidxFile] = tif

\* C30: whenever isDirty() is false and no flush is in progress, TRKIDX on
\* the filesystem is identical to the in-memory image.
C30_CleanImageIsOnDisc == (~dirty /\ pc = "new") => files[TrkidxFile] = tif

\* The positions of a list of count entries that are not in S, ascending.
KeptPositions(count, S) ==
    SelectSeq([i \in 1..count |-> i - 1], LAMBDA i : i \notin S)

\* C22: for a set S of distinct valid track indices, after deleteTracks(S)
\* the track count is the old count minus |S| and ordering positions
\* 0..count-1 hold the old ordering with the positions in S removed, the
\* surviving entries in their old relative order.
C22_DeleteTracksCompactsOrdering ==
    [][(lastOp'.op = "deleteTracks" /\ lastOp'.err = "ok" /\ opCount' = opCount + 1) =>
         LET S == lastOp'.tracksToDelete
             kept == KeptPositions(getTrackCount(tif), S)
         IN  /\ getTrackCount(tif') = getTrackCount(tif) - Cardinality(S)
             /\ Len(kept) = getTrackCount(tif')
             /\ \A j \in 1..Len(kept) :
                    trackIndexToTrackSlot(tif', j - 1) = trackIndexToTrackSlot(tif, kept[j])]_vars

\* The first and the last of three tracks were deleted in one call.
C22_DeletedFirstAndLast ==
    /\ lastOp.op = "deleteTracks"
    /\ lastOp.err = "ok"
    /\ lastOp.tracksToDelete = {0, 2}
    /\ getTrackCount(tif) = 1

\* C24: after any sequence of uploads and deleteTracks from a well-formed
\* disc, no slot index occurs twice among ordering positions 0..trackCount-1
\* (addTrack never returns a slot that holds a live track).
C24_OrderingSlotsDistinct ==
    \A i, j \in 0..(getTrackCount(tif) - 1) :
        i # j => trackIndexToTrackSlot(tif, i) # trackIndexToTrackSlot(tif, j)

AtdataFile == getDatanumDependentName("ATDATA", datanum[1])

\* C28: the fragment record an upload creates satisfies firstBlock <=
\* lastBlock and covers exactly the blocks this upload appended to ATDATA,
\* for every input length, input that yields no complete frame included.
C28_FragmentCoversUploadedBlocks ==
    [][(lastOp'.op \in MacUploads \cup {"uploadMP3Track"} /\ lastOp'.err = "ok"
          /\ opCount' = opCount + 1) =>
         LET fragment == getFragment(tif', getTrack(tif', lastOp'.slot).firstFragment)
         IN  /\ fragment.firstBlock <= fragment.lastBlock
             /\ fragment.firstBlock = files[AtdataFile]
             /\ fragment.lastBlock = files'[AtdataFile] - 1]_vars

\* C23: on a fragment list with firstBlock <= lastBlock throughout,
\* successive read() calls return exactly the blocks firstBlock..lastBlock
\* of each fragment, in fragment order, and every later call returns the
\* end-of-stream value.
C23_ReadReturnsFragmentBlocks ==
    reader.state = "open" =>
        LET expected == FragmentBlocks(reader.fragments)
        IN  \A k \in DOMAIN reader.out :
                IF k <= Len(expected)
                THEN ~reader.out[k].eof /\ reader.out[k].block = expected[k]
                ELSE reader.out[k].eof

\* Two fragments that do not follow each other in ATDATA were read to the
\* end and read() was called twice more.
C23_ReadPastTwoFragments ==
    /\ reader.state = "open"
    /\ Len(reader.fragments) = 2
    /\ reader.fragments[2].firstBlock < reader.fragments[1].firstBlock
    /\ reader.fragments[1].lastBlock > reader.fragments[1].firstBlock
    /\ Len(reader.out) = Len(FragmentBlocks(reader.fragments)) + 2
    /\ reader.out[Len(reader.out)].eof

\* The string indices stored in live groups (group 0 included) and tracks.
StoredStringIndices ==
    {getGroup(tif, g).titleIndex : g \in 0..getGroupCount(tif)}
        \cup UNION {{getTrack(tif, trackIndexToTrackSlot(tif, i)).titleIndex,
                     getTrack(tif, trackIndexToTrackSlot(tif, i)).artistIndex,
                     getTrack(tif, trackIndexToTrackSlot(tif, i)).albumIndex} :
                    i \in 0..(getTrackCount(tif) - 1)}

\* C25: after any sequence of renames, failing ones included, every
\* non-zero title, artist or album index stored in a live track or group
\* designates the root chunk of a string chain that shares no chunk with the
\* string freelist.
C25_StoredStringsAreNotFree ==
    \A index \in StoredStringIndices \ {0} :
        LET chain == StringChain(tif, index, NString)
            free == StringFreelist(tif)
        IN  /\ getStringChunk(tif, index).type \notin {UNUSED, CONTINUATION}
            /\ {chain[k] : k \in DOMAIN chain} \cap {free[k] : k \in DOMAIN free} = {}

\* C26: for every generation number g and every current generation, after
\* advanceGeneration(g) each of ATDATA, MCLIST and TRKIDX exists under the
\* suffix g % 16 with the content of the previously live file, and no live
\* file ends up under an .HJS name; this includes g % 16 equal to the
\* current generation.
C26_AdvanceGenerationKeepsLiveFiles ==
    [][lastOp'.op = "advanceGeneration" =>
         LET e == AdvancedFile
             target == <<e, session.currentGeneration[1] % GenerationModulus>>
             current == <<e, datanum[1]>>
         IN  /\ target \in DOMAIN files'
             /\ files'[target] = files[current]
             /\ \A name \in HjsNames \cap DOMAIN files' :
                    name \in DOMAIN files \/ files'[name] # files[current]]_vars

\* C27: for every content of a track slot s, writeTrack(s, getTrack(s))
\* leaves the slot byte-identical.
C27_WriteTrackOfGetTrackIsIdentity ==
    lastOp.op = "writeTrack" => lastOp.written = lastOp.slot

\* The string chunks reachable from an index stored in a live track or group.
ReachableStringChunks ==
    UNION {LET chain == StringChain(tif, index, NString)
           IN  {chain[k] : k \in DOMAIN chain} : index \in StoredStringIndices}

\* C29: after rewriteGroups(groups) with valid input on a disc holding any
\* number of groups, exactly the requested groups exist, and every string
\* chunk is either on the string freelist or reachable from a title, artist
\* or album index of a live track or group.
C29_RewriteGroupsFreesOldTitles ==
    (lastOp.op = "rewriteGroups" /\ lastOp.err = "ok") =>
        LET free == StringFreelist(tif)
            requested == lastOp.groups
        IN  /\ {<<getGroup(tif, g).startTrackIndex, getGroup(tif, g).endTrackIndex>> :
                    g \in 1..getGroupCount(tif)}
                 = {<<SetMin(requested[i]), SetMax(requested[i]) + 1>> : i \in 1..Len(requested)}
            /\ getGroupCount(tif) = Len(requested)
            /\ \A chunk \in StringSlots \ {0} :
                   chunk \in {free[k] : k \in DOMAIN free} \cup ReachableStringChunks

\* C31: a second process() started on a streaming CryptoBlockProvider while
\* an earlier iteration is running is rejected with the busy error, and the
\* earlier iteration still yields its own blocks: the i-th block it yields is
\* the i-th block of its data, and it ends after all of them.
C31_SecondProcessRejected ==
    /\ lastOp.op = "process" => lastOp.err = BusyError
    /\ stream.consumer = "holding" => stream.held = <<<<"block", stream.i + 1>>>>
    /\ stream.consumer = "done" => stream.i = stream.total

C33_ErasedGroupIsAllZero ==
    lastOp.op = "deleteGroup" => RawGroup(tif, getGroupCount(tif) + 1) = ZeroGroup

\* The blocks of the upload each hold at most 255 frames.
AtMost255FramesPerBlock ==
    \A b \in DOMAIN upload.packed : upload.packed[b].nFrames <= 255

\* C34: for an MP3 track stored by uploadMP3Track in slot s whose blocks each
\* hold at most 255 frames, reading it back through the MP3 stream of slot s
\* raises no error and returns, block by block, exactly the frame bytes
\* packed into that block, the XOR of the upload undone.
C34_Mp3ReadBackReturnsPackedFrames ==
    (upload.state \in {"reading", "readDone", "readFailed"} /\ AtMost255FramesPerBlock) =>
        /\ upload.state # "readFailed"
        /\ Len(upload.out) <= Len(upload.packed)
        /\ \A k \in DOMAIN upload.out :
               /\ upload.out[k].frames = upload.packed[k].frames
               /\ upload.out[k].mask = {}
               /\ upload.out[k].framesCount = upload.packed[k].nFrames
        /\ upload.state = "readDone" => Len(upload.out) = Len(upload.packed)

\* Two blocks of 39 and one frames were read back to the end of the stream.
C34_TwoBlocksReadBack ==
    /\ upload.state = "readDone"
    /\ Len(upload.out) = 2
    /\ upload.blocks[1].mask # {}

RECURSIVE SumOfLengths(_, _)
\* The total length of the frames of the input with the ids listed.
SumOfLengths(input, ids) ==
    IF ids = <<>> THEN 0 ELSE input[Head(ids)].len + SumOfLengths(input, Tail(ids))

RECURSIVE PackedFrames(_)
\* The frame ids of the blocks, block after block.
PackedFrames(blocks) ==
    IF blocks = <<>> THEN <<>> ELSE Head(blocks).frames \o PackedFrames(Tail(blocks))

\* C35: in uploadMP3Track, for every sequence of frames each shorter than
\* the block payload, every input frame is stored exactly once and in input
\* order across the emitted blocks; each block's nFrames and lendata are the
\* number and total length of its frames, lendata never exceeds 0x3FC0, and
\* the blocks carry the serial numbers 0, 1, 2, ... in emission order.
C35_EveryFramePackedOnce ==
    upload.state = "stored" =>
        /\ PackedFrames(upload.blocks) = [k \in 1..Len(upload.input) |-> k]
        /\ \A b \in DOMAIN upload.blocks :
               /\ upload.blocks[b].nFrames = Len(upload.blocks[b].frames)
               /\ upload.blocks[b].lendata = SumOfLengths(upload.input, upload.blocks[b].frames)
               /\ upload.blocks[b].lendata <= HIMD_AUDIO_SIZE
               /\ upload.blocks[b].serialNumber = b - 1

\* C36: the lastFrame value read back from the fragment record created by
\* uploadMP3Track equals the number of frames in the last emitted block.
C36_LastFrameIsFrameCountOfLastBlock ==
    (upload.state = "stored" /\ upload.blocks # <<>>) =>
        getFragment(tif, upload.fragment).lastFrame
            = upload.blocks[Len(upload.blocks)].nFrames

\* The headers of the frames of the input.
InputHeaders == {upload.input[k].hdr : k \in DOMAIN upload.input}

\* The highest sample rate of the input, in the index order 1 > 0 > 2.
HighestSampleRate ==
    IF \E h \in InputHeaders : h.srate = 1 THEN 1
    ELSE IF \E h \in InputHeaders : h.srate = 0 THEN 0 ELSE 2

\* C39: the codec info produced by uploadMP3Track has each variability bit
\* set exactly when some frame's value of that field differs from the first
\* frame's, and records the minimum version and layer index, the maximum
\* bitrate index and the highest sample rate over all frames, whatever the
\* order of the frames after the first.
C39_CodecInfoWidensOverFrames ==
    upload.state = "stored" =>
        LET first == upload.input[1].hdr
            bit(differs, value) == IF differs THEN value ELSE 0
        IN  /\ upload.codecInfo[1] =
                   128 + bit(\E h \in InputHeaders : h.vers # first.vers, HIMD_MP3_VAR_VERSION)
                       + bit(\E h \in InputHeaders : h.layer # first.layer, HIMD_MP3_VAR_LAYER)
                       + bit(\E h \in InputHeaders : h.bitrate # first.bitrate, HIMD_MP3_VAR_BITRATE)
                       + bit(\E h \in InputHeaders : h.srate # first.srate, HIMD_MP3_VAR_SRATE)
                       + bit(\E h \in InputHeaders : h.chmode # first.chmode, HIMD_MP3_VAR_CHMODE)
                       + bit(\E h \in InputHeaders : h.preemph # first.preemph, HIMD_MP3_VAR_PREEMPH)
            /\ upload.codecInfo[2] =
                   SetMin({h.vers : h \in InputHeaders}) * 64
                       + SetMin({h.layer : h \in InputHeaders}) * 16
                       + SetMax({h.bitrate : h \in InputHeaders})
            /\ upload.codecInfo[3] =
                   HighestSampleRate * 64 + first.chmode * 16 + first.preemph * 4

\* An upload of three frames that differ in version, bitrate and sample
\* rate has been stored.
C39_ThreeDifferentFramesStored ==
    /\ upload.state = "stored"
    /\ Len(upload.input) = 3
    /\ upload.input[1].hdr.srate = 2
    /\ upload.input[2].hdr.bitrate = 11
    /\ upload.input[3].hdr.vers = 2

\* C37: collecting a track's fragment chain ends within as many hops as the
\* fragment table has slots (4096 on a disc), whatever the nextFragment
\* links of the image are: a chain that closes on itself is given up with an
\* error instead of being followed again.
C37_ChainWalkEndsWithinTable ==
    reader.state = "collecting" => Len(reader.fragments) <= NFrag

\* C38: addTrack on an empty track freelist and addFragment on an empty
\* fragment freelist leave the image as it was; otherwise the index they
\* return is not 0 and slot 0 holds nothing but the link to the next free
\* slot afterwards.
C38_EmptyFreelistIsRefused ==
    [][/\ lastOp'.op = "addTrack" =>
            IF getNextFreeTrackSlot(tif) = 0
            THEN tif' = tif
            ELSE /\ lastOp'.slot # 0
                 /\ [getTrack(tif', 0) EXCEPT !.trackNumber = 0] = ZeroTrack
       /\ lastOp'.op = "addFragment" =>
            IF addFragmentIndex(tif) = 0
            THEN tif' = tif
            ELSE /\ lastOp'.slot # 0
                 /\ [getFragment(tif', 0) EXCEPT !.nextFragment = 0] = ZeroFragment]_vars

====
